---- MODULE Spec2Model ----
(***************************************************************************)
(* HTML / Markdown -> Office conversion pipeline of gpt-latex-ctrl-c-v:    *)
(* the math placeholder pipeline (pipeline.rs), the sanitizer              *)
(* (sanitize.rs), the Office-HTML transcoder (office.rs) and the HTML to   *)
(* .docx builder (docx_from_html/src/main.rs).                             *)
(*                                                                         *)
(* Strings are sequences of characters (one-character TLA+ strings); an    *)
(* HTML string is a sequence of tokens (start tag, end tag, text, comment) *)
(* whose text carries the escaped characters; a DOM is a forest of nested  *)
(* node records, as html5ever's RcDom gives it.                            *)
(***************************************************************************)
EXTENDS Integers, Sequences, FiniteSets, TLC

VARIABLES
    pc,       \* position of the call in progress
    dom,      \* the parsed input document: the children of <body>
    text,     \* the contents of the text node under scan (text-pass runs)
    html,     \* the HTML string handed from one stage to the next
    jobs,     \* Vec<TexJob> collected so far
    spans,    \* ghost: [open, close) offsets of the spans of the text-pass jobs
    out_mathml, \* the conversion result of each job, "" for a failed one
    joined,   \* the U+001F-joined conversion results
    ret,      \* the value returned by the call: [ok, html]
    omml,     \* an OMML fragment and its successive normalizations
    blocks,   \* Vec<Block> of the block-model builder
    li_log,   \* ghost: the ListInfo of the paragraph each li opened, in walk order
    link_to_rid, \* BTreeMap href -> relationship id, as a sequence of pairs
    doc_xml,  \* the rendered body of word/document.xml
    package,  \* the parts written to the output file, <<>> when none is written
    exit_code \* the exit status of docx_from_html: 0, 1, or -1 while running

vars == <<pc, dom, text, html, jobs, spans, out_mathml, joined, ret,
          omml, blocks, li_log, link_to_rid, doc_xml, package, exit_code>>

\* the variables of the placeholder pipeline and those of docx_from_html
pipe_vars == <<text, html, jobs, spans, out_mathml, joined, ret>>
docx_vars == <<omml, blocks, li_log, link_to_rid, doc_xml, package, exit_code>>

\* docx_from_html is not running
DocxIdle ==
    /\ omml = <<>>
    /\ blocks = <<>>
    /\ li_log = <<>>
    /\ link_to_rid = <<>>
    /\ doc_xml = <<>>
    /\ package = <<>>
    /\ exit_code = -1

----------------------------------------------------------------------------
(* Bounds of the model. *)

\* longest text node enumerated when the text scan is checked on its own
MaxTextLen == 6
\* most nodes of an input document
MaxNodes == 3
\* most tokens of the html handed to office_apply_mathml on its own
MaxHtmlLen == 3
\* most results handed to office_apply_mathml on its own
MaxParts == 3
\* most pieces (a delimiter or a letter) of a text node enumerated when the
\* delimiters of the text scan are checked
MaxPieces == 5
\* most lexemes of an OMML fragment
MaxOmmlLen == 4
\* most segments of a paragraph rendered on its own
MaxSegments == 4
\* most nodes of a document with lists, and of one with tables, handed to
\* docx_from_html (the tbody elements that the parser adds are not counted)
MaxListNodes == 5
MaxTableNodes == 6
\* most nodes of a document with headings, paragraphs, breaks, blank text and
\* an equation comment handed to docx_from_html
MaxBlockNodes == 3
\* most nodes of a document with hyperlinks, in the body and in table cells,
\* handed to docx_from_html
MaxLinkNodes == 7
\* most pieces (a delimiter, a blank, a backtick or a letter) of a text
\* handed to the HTML text pass and to the Markdown text scan
MaxScanPieces == 4
\* most nodes of a document handed to the attribute-driven pass alone
MaxDataMathNodes == 4
\* most characters of a string handed to decode_entities on its own
MaxEntityLen == 5
\* most nodes of a document handed to the sanitizer twice
MaxAttrNodes == 4

----------------------------------------------------------------------------
(* Characters and string primitives (Rust str methods). *)

None == <<"None">>

IsAsciiDigit(c) == c \in {"0", "1", "2", "3", "4", "5", "6", "7", "8", "9"}

IsWhitespace(c) == c \in {" ", "\n", "\t", "\r"}

\* text[a..b] with 0-based byte offsets, as in the source
Slice(s, a, b) == SubSeq(s, a + 1, b)

\* text[i..].starts_with(pat)
StartsWithAt(s, i, pat) ==
    /\ i + Len(pat) <= Len(s)
    /\ Slice(s, i, i + Len(pat)) = pat

\* s[from..].find(pat).map(|d| from + d), or -1 for Option::None
RECURSIVE FindFrom(_, _, _)
FindFrom(s, from, pat) ==
    IF from + Len(pat) > Len(s) THEN -1
    ELSE IF StartsWithAt(s, from, pat) THEN from
    ELSE FindFrom(s, from + 1, pat)

RECURSIVE TrimStart(_)
TrimStart(s) ==
    IF s # <<>> /\ IsWhitespace(Head(s)) THEN TrimStart(Tail(s)) ELSE s

RECURSIVE TrimEnd(_)
TrimEnd(s) ==
    IF s # <<>> /\ IsWhitespace(s[Len(s)]) THEN TrimEnd(SubSeq(s, 1, Len(s) - 1)) ELSE s

\* str::trim
Trim(s) == TrimEnd(TrimStart(s))

\* the concatenation of a sequence of strings
RECURSIVE Concat(_)
Concat(ss) == IF ss = <<>> THEN <<>> ELSE Head(ss) \o Concat(Tail(ss))

\* esc_text: & < > become character references
EscChar(c) ==
    CASE c = "&" -> <<"&", "a", "m", "p", ";">>
      [] c = "<" -> <<"&", "l", "t", ";">>
      [] c = ">" -> <<"&", "g", "t", ";">>
      [] OTHER -> <<c>>

esc_text(s) == Concat([i \in 1..Len(s) |-> EscChar(s[i])])

\* esc_attr: esc_text and the double quote
esc_attr(s) ==
    Concat([i \in 1..Len(s) |->
        IF s[i] = "\"" THEN <<"&", "q", "u", "o", "t", ";">> ELSE EscChar(s[i])])

----------------------------------------------------------------------------
(* entities.rs and normalize.rs.  A character outside ASCII is written     *)
(* "U+hhhh"; Utf8Bytes gives the characters whose code points are its      *)
(* UTF-8 bytes, which is what `bytes[i] as char` pushes.                   *)

Utf8Bytes(c) ==
    CASE c = "U+03D5" -> <<"U+00CF", "U+0095">>
      [] c = "U+03F5" -> <<"U+00CF", "U+00B5">>
      [] c = "U+2192" -> <<"U+00E2", "U+0086", "U+0092">>
      [] c = "U+2260" -> <<"U+00E2", "U+0089", "U+00A0">>
      [] c = "U+2297" -> <<"U+00E2", "U+008A", "U+0097">>
      [] c = "U+200B" -> <<"U+00E2", "U+0080", "U+008B">>
      [] c = "U+00E9" -> <<"U+00C3", "U+00A9">>
      [] OTHER -> <<c>>

HexVal(c) ==
    CASE c = "0" -> 0 [] c = "1" -> 1 [] c = "2" -> 2 [] c = "3" -> 3
      [] c = "4" -> 4 [] c = "5" -> 5 [] c = "6" -> 6 [] c = "7" -> 7
      [] c = "8" -> 8 [] c = "9" -> 9
      [] c \in {"a", "A"} -> 10 [] c \in {"b", "B"} -> 11
      [] c \in {"c", "C"} -> 12 [] c \in {"d", "D"} -> 13
      [] c \in {"e", "E"} -> 14 [] c \in {"f", "F"} -> 15
      [] OTHER -> 99

\* u32::from_str_radix(digits, radix): -1 for Err (empty, a bad digit, overflow).
\* A value past the last code point 0x10FFFF is cut to -1 at once: whether the
\* parse then overflows (Err) or not (char::from_u32 gives None), no character
\* is decoded.
RECURSIVE ParseRadix(_, _, _)
ParseRadix(ds, radix, acc) ==
    IF ds = <<>> THEN acc
    ELSE IF HexVal(Head(ds)) >= radix THEN -1
    ELSE IF acc * radix + HexVal(Head(ds)) > 1114111 THEN -1
    ELSE ParseRadix(Tail(ds), radix, acc * radix + HexVal(Head(ds)))

ParseU32(ds, radix) ==
    LET body == IF ds # <<>> /\ Head(ds) = "+" THEN Tail(ds) ELSE ds
    IN  IF body = <<>> THEN -1 ELSE ParseRadix(body, radix, 0)

\* char::from_u32 on the code points the model's alphabets can spell
CharFromU32(n) ==
    CASE n = 36 -> <<"$">>
      [] n = 38 -> <<"&">>
      [] n = 39 -> <<"'">>
      [] n = 60 -> <<"<">>
      [] n = 120 -> <<"x">>
      [] n = 981 -> <<"U+03D5">>
      [] n < 0 \/ (n >= 55296 /\ n <= 57343) \/ n > 1114111 -> None
      [] OTHER -> <<"U+" \o ToString(n)>>

\* the match on `ent` of decode_entities: the decoded character, or None
DecodeEntity(ent) ==
    CASE ent = <<"a", "m", "p">> -> <<"&">>
      [] ent = <<"l", "t">> -> <<"<">>
      [] ent = <<"g", "t">> -> <<">">>
      [] ent = <<"q", "u", "o", "t">> -> <<"\"">>
      [] ent = <<"#", "3", "9">> -> <<"'">>
      [] Len(ent) >= 2 /\ ent[1] = "#" /\ ent[2] \in {"x", "X"} ->
            CharFromU32(ParseU32(SubSeq(ent, 3, Len(ent)), 16))
      [] Len(ent) >= 1 /\ ent[1] = "#" ->
            CharFromU32(ParseU32(Tail(ent), 10))
      [] OTHER -> None

RECURSIVE DecodeFrom(_, _)
DecodeFrom(s, i) ==
    IF i >= Len(s) THEN <<>>
    ELSE IF s[i + 1] # "&" THEN Utf8Bytes(s[i + 1]) \o DecodeFrom(s, i + 1)
    ELSE LET semi == FindFrom(s, i, <<";">>) IN
         IF semi = -1 THEN <<"&">> \o DecodeFrom(s, i + 1)
         ELSE LET decoded == DecodeEntity(Slice(s, i + 1, semi)) IN
              IF decoded # None
              THEN decoded \o DecodeFrom(s, semi + 1)
              ELSE Slice(s, i, semi + 1) \o DecodeFrom(s, semi + 1)

decode_entities(s) == DecodeFrom(s, 0)

NormalizeChar(c) ==
    CASE c \in {"U+200B", "U+200C", "U+200D", "U+2060", "U+FEFF"} -> <<>>
      [] c = "U+2016" -> <<"|", "|">>
      [] c \in {"U+E020", "U+2260"} -> <<"\\", "n", "e", "q">>
      [] c = "U+2297" -> <<"\\", "o", "t", "i", "m", "e", "s">>
      [] c = "U+03F5" -> <<"\\", "e", "p", "s", "i", "l", "o", "n">>
      [] c = "U+03D5" -> <<"\\", "p", "h", "i">>
      [] c = "U+2192" -> <<"\\", "t", "o">>
      [] c = "U+27E8" -> <<"\\", "l", "a", "n", "g", "l", "e">>
      [] c = "U+27E9" -> <<"\\", "r", "a", "n", "g", "l", "e">>
      [] OTHER -> <<c>>

normalize_latex(latex) == Concat([i \in 1..Len(latex) |-> NormalizeChar(latex[i])])

----------------------------------------------------------------------------
(* HTML strings as token sequences. *)

Attr(name, value) == [name |-> name, value |-> value]

TagOpen(tag, attrs) == [t |-> "open", tag |-> tag, attrs |-> attrs, text |-> <<>>]
\* a start tag written "<tag .../>"
TagVoid(tag, attrs) == [t |-> "void", tag |-> tag, attrs |-> attrs, text |-> <<>>]
TagClose(tag) == [t |-> "close", tag |-> tag, attrs |-> <<>>, text |-> <<>>]
TextTok(s) == [t |-> "text", tag |-> "", attrs |-> <<>>, text |-> s]
CommentTok(s) == [t |-> "comment", tag |-> "", attrs |-> <<>>, text |-> s]

\* out.push_str(escaped text): text next to text is one run of characters
PushText(out, s) ==
    IF s = <<>> THEN out
    ELSE IF out # <<>> /\ out[Len(out)].t = "text"
    THEN SubSeq(out, 1, Len(out) - 1) \o <<TextTok(out[Len(out)].text \o s)>>
    ELSE Append(out, TextTok(s))

\* out.push_str(piece) for a piece that is itself a token sequence
PushStr(out, piece) ==
    IF piece # <<>> /\ piece[1].t = "text"
    THEN PushText(out, piece[1].text) \o Tail(piece)
    ELSE out \o piece

\* the contents of the comment <!--COF_TEX_{id}-->
MarkerText(id) == <<"COF_TEX_", ToString(id)>>

Marker(id) == CommentTok(MarkerText(id))

ClassAttr(word) == <<Attr("class", <<word>>)>>

placeholder_for(id, display) ==
    IF display
    THEN <<TagOpen("span", ClassAttr("cof-math-block")), Marker(id), TagClose("span")>>
    ELSE <<TagOpen("span", ClassAttr("cof-math-inline")), Marker(id), TagClose("span")>>

TexJob(id, latex, display) == [id |-> id, latex |-> latex, display |-> display]

----------------------------------------------------------------------------
(* pipeline.rs: the text-driven pass over one text node. *)

\* mutant: the heuristic accepts digits only
is_currency_like_digits_only(inner) ==
    LET t == Trim(inner) IN
    IF t = <<>> THEN TRUE ELSE \A n \in 1..Len(t) : IsAsciiDigit(t[n])

is_currency_like_inline_dollar(inner) ==
    LET t == Trim(inner) IN
    IF t = <<>> THEN TRUE
    ELSE \A n \in 1..Len(t) : IsAsciiDigit(t[n]) \/ t[n] = "," \/ t[n] = "."

\* the `while k < bytes.len()` loop of the currency guardrail
RECURSIVE CurrencyRunEnd(_, _)
CurrencyRunEnd(s, k) ==
    IF k >= Len(s) THEN k
    ELSE IF IsWhitespace(s[k + 1]) \/ s[k + 1] = "$" THEN k
    ELSE CurrencyRunEnd(s, k + 1)

\* the `while j < bytes.len()` loop: the next "$" not preceded by a backslash
RECURSIVE NextDollar(_, _)
NextDollar(s, j) ==
    IF j >= Len(s) THEN j
    ELSE IF s[j + 1] = "$" /\ ~(j > 0 /\ s[j] = "\\") THEN j
    ELSE NextDollar(s, j + 1)

\* text[i..].starts_with(open) and the matching find of `close`: the offset
\* of the closing delimiter, or -1
PairEnd(s, i, open, close) ==
    IF StartsWithAt(s, i, open) THEN FindFrom(s, i + 2, close) ELSE -1

\* mutant: the branches all record an inline job
DelimitedSpanInline(st, s, last, i, end, display) ==
    LET pre == PushText(st.out, esc_text(Slice(s, last, i)))
        latex == normalize_latex(decode_entities(Trim(Slice(s, i + 2, end))))
    IN  IF Trim(latex) # <<>>
        THEN [out |-> PushStr(pre, placeholder_for(Len(st.jobs), FALSE)),
              jobs |-> Append(st.jobs, TexJob(Len(st.jobs), latex, FALSE)),
              spans |-> Append(st.spans, <<i, end + 2>>)]
        ELSE [st EXCEPT !.out = PushText(pre, esc_text(Slice(s, i, end + 2)))]

\* the body shared by the "$$", "\[" and "\(" branches; st = [out, jobs, spans]
DelimitedSpan(st, s, last, i, end, display) ==
    LET pre == PushText(st.out, esc_text(Slice(s, last, i)))
        latex == normalize_latex(decode_entities(Trim(Slice(s, i + 2, end))))
    IN  IF Trim(latex) # <<>>
        THEN [out |-> PushStr(pre, placeholder_for(Len(st.jobs), display)),
              jobs |-> Append(st.jobs, TexJob(Len(st.jobs), latex, display)),
              spans |-> Append(st.spans, <<i, end + 2>>)]
        ELSE [st EXCEPT !.out = PushText(pre, esc_text(Slice(s, i, end + 2)))]

RECURSIVE ScanText(_, _, _, _)
ScanText(s, i, last, st) ==
    IF i >= Len(s)
    THEN [st EXCEPT !.out = PushText(st.out, esc_text(Slice(s, last, Len(s))))]
    ELSE
    LET e1 == PairEnd(s, i, <<"$", "$">>, <<"$", "$">>)
        e2 == PairEnd(s, i, <<"\\", "[">>, <<"\\", "]">>)
        e3 == PairEnd(s, i, <<"\\", "(">>, <<"\\", ")">>)
    IN
    IF e1 # -1 THEN ScanText(s, e1 + 2, e1 + 2, DelimitedSpan(st, s, last, i, e1, TRUE))
    ELSE IF e2 # -1 THEN ScanText(s, e2 + 2, e2 + 2, DelimitedSpan(st, s, last, i, e2, TRUE))
    ELSE IF e3 # -1 THEN ScanText(s, e3 + 2, e3 + 2, DelimitedSpan(st, s, last, i, e3, FALSE))
    ELSE IF s[i + 1] = "$" /\ ~StartsWithAt(s, i, <<"$", "$">>) /\ ~(i > 0 /\ s[i] = "\\")
    THEN
        LET k == CurrencyRunEnd(s, i + 1) IN
        IF /\ k > i + 1 /\ k < Len(s) /\ IsWhitespace(s[k + 1])
           /\ is_currency_like_inline_dollar(Slice(s, i + 1, k))
        THEN ScanText(s, i + 1, last, st)
        ELSE
            LET j == NextDollar(s, i + 1) IN
            IF j < Len(s) /\ ~is_currency_like_inline_dollar(Slice(s, i + 1, j))
            THEN
                LET pre == PushText(st.out, esc_text(Slice(s, last, i)))
                    latex == normalize_latex(decode_entities(Trim(Slice(s, i + 1, j))))
                IN  IF Trim(latex) # <<>>
                    THEN ScanText(s, j + 1, j + 1,
                            [out |-> PushStr(pre, placeholder_for(Len(st.jobs), FALSE)),
                             jobs |-> Append(st.jobs, TexJob(Len(st.jobs), latex, FALSE)),
                             spans |-> Append(st.spans, <<i, j + 1>>)])
                    \* the text before the "$" is already pushed and `last` stays
                    ELSE ScanText(s, i + 1, last, [st EXCEPT !.out = pre])
            ELSE ScanText(s, i + 1, last, st)
    ELSE ScanText(s, i + 1, last, st)

\* st.spans holds offsets into the node under scan only: callers reset it
emit_text_with_tex_placeholders(o, s, js) ==
    ScanText(s, 0, 0, [out |-> o, jobs |-> js, spans |-> <<>>])

----------------------------------------------------------------------------
(* pipeline.rs: re-injection.  A conversion result is opaque: the token    *)
(* MathmlTok(latex, display) stands for the MathML of tex_to_mathml.       *)

\* the separator U+001F inside a joined string
SepTok == [t |-> "sep", tag |-> "", attrs |-> <<>>, text |-> <<>>]

MathmlTok(latex, display) ==
    [t |-> "mathml", tag |-> IF display THEN "block" ELSE "inline",
     attrs |-> <<>>, text |-> latex]

\* Vec<String>::join("\u{001F}")
RECURSIVE Join(_)
Join(parts) ==
    IF parts = <<>> THEN <<>>
    ELSE IF Len(parts) = 1 THEN parts[1]
    ELSE parts[1] \o <<SepTok>> \o Join(Tail(parts))

\* str::split(sep).collect()
RECURSIVE Split(_)
Split(s) ==
    IF \E n \in 1..Len(s) : s[n] = SepTok
    THEN LET at == CHOOSE n \in 1..Len(s) :
                        s[n] = SepTok /\ \A m \in 1..(n - 1) : s[m] # SepTok
         IN  <<SubSeq(s, 1, at - 1)>> \o Split(SubSeq(s, at + 1, Len(s)))
    ELSE <<s>>

\* html.contains("<!--COF_TEX_")
ContainsMarkerPrefix(h) ==
    \E n \in 1..Len(h) :
        h[n].t = "comment" /\ h[n].text # <<>> /\ h[n].text[1] = "COF_TEX_"

\* out.contains(&marker)
ContainsMarker(h, idx) == \E n \in 1..Len(h) : h[n] = Marker(idx)

\* mutant: only the first occurrence is replaced (str::replacen(.., 1))
RECURSIVE ReplaceMarkerOnce(_, _, _)
ReplaceMarkerOnce(h, idx, mathml) ==
    IF h = <<>> THEN <<>>
    ELSE IF Head(h) = Marker(idx) THEN PushStr(mathml, Tail(h))
    ELSE PushStr(<<Head(h)>>, ReplaceMarkerOnce(Tail(h), idx, mathml))

\* out.replace(&marker, mathml)
RECURSIVE ReplaceMarker(_, _, _)
ReplaceMarker(h, idx, mathml) ==
    IF h = <<>> THEN <<>>
    ELSE PushStr(IF Head(h) = Marker(idx) THEN mathml ELSE <<Head(h)>>,
                 ReplaceMarker(Tail(h), idx, mathml))

\* the list "i,j,k" of the diagnostic comment
RECURSIVE MissingList(_)
MissingList(missing) ==
    IF missing = <<>> THEN <<>>
    ELSE IF Len(missing) = 1 THEN <<ToString(missing[1])>>
    ELSE <<ToString(missing[1]), ",">> \o MissingList(Tail(missing))

WarnComment(missing) ==
    CommentTok(<<"COF_WARN_MISSING_PLACEHOLDER:">> \o MissingList(missing))

\* the `for (idx, mathml) in parts.iter().enumerate()` loop; st = [out, missing]
RECURSIVE ApplyLoop(_, _, _)
ApplyLoop(parts, idx, st) ==
    IF idx >= Len(parts) THEN st
    ELSE IF ~ContainsMarker(st.out, idx)
    THEN ApplyLoop(parts, idx + 1, [st EXCEPT !.missing = Append(@, idx)])
    ELSE ApplyLoop(parts, idx + 1,
                   [st EXCEPT !.out = ReplaceMarker(@, idx, parts[idx + 1])])

\* mutant: a missing placeholder aborts the call (the string-based copy of
\* the pipeline, src/rust/tex_to_mathml_wasm/src/pipeline.rs:564-586)
office_apply_mathml_fatal(h, joined_mathml) ==
    LET parts == IF joined_mathml = <<>> THEN <<>> ELSE Split(joined_mathml)
        st == ApplyLoop(parts, 0, [out |-> h, missing |-> <<>>])
    IN  IF ~ContainsMarkerPrefix(h) THEN [ok |-> TRUE, html |-> h]
        ELSE IF st.missing # <<>> THEN [ok |-> FALSE, html |-> <<>>]
        ELSE [ok |-> TRUE, html |-> st.out]

office_apply_mathml(h, joined_mathml) ==
    LET parts == IF joined_mathml = <<>> THEN <<>> ELSE Split(joined_mathml)
        st == ApplyLoop(parts, 0, [out |-> h, missing |-> <<>>])
    IN  IF ~ContainsMarkerPrefix(h) THEN [ok |-> TRUE, html |-> h]
        ELSE IF st.missing # <<>>
        THEN [ok |-> TRUE, html |-> Append(st.out, WarnComment(st.missing))]
        ELSE [ok |-> TRUE, html |-> st.out]

----------------------------------------------------------------------------
(* The DOM (markup5ever_rcdom) and its serialisation.  A node is an        *)
(* element, a text node or a comment; an attribute value is a sequence of  *)
(* words and spaces.                                                       *)

Elem(tag, attrs, kids) ==
    [k |-> "elem", tag |-> tag, attrs |-> attrs, kids |-> kids, text |-> <<>>]
TextNode(s) == [k |-> "text", tag |-> "", attrs |-> <<>>, kids |-> <<>>, text |-> s]
CommentNode(s) == [k |-> "comment", tag |-> "", attrs |-> <<>>, kids |-> <<>>, text |-> s]

\* str::to_ascii_lowercase on the words of the model
AsciiLower(w) ==
    CASE w = "KaTeX" -> "katex"
      [] w = "JavaScript:" -> "javascript:"
      [] w = "DATA:" -> "data:"
      [] w = "VBScript:" -> "vbscript:"
      [] w = "Math-Block" -> "math-block"
      [] w = "DIV" -> "div"
      [] w = "msEquation" -> "msequation"
      [] OTHER -> w

LowerAll(v) == [n \in 1..Len(v) |-> AsciiLower(v[n])]

\* attrs.get(name) of a HashMap / attr_get: <<value>>, or <<>> for None
AttrGet(attrs, name) ==
    LET hits == SelectSeq(attrs, LAMBDA a : a.name = name)
    IN  IF hits = <<>> THEN <<>> ELSE <<hits[1].value>>

is_void(tag) == AsciiLower(tag) \in {"br", "hr", "img", "meta", "link", "input"}

EscAttrs(attrs) == [n \in 1..Len(attrs) |-> Attr(attrs[n].name, esc_attr(attrs[n].value))]

\* serialize_node / serialize_nodes of sanitize.rs, and the same writes in the
\* walks of pipeline.rs
RECURSIVE serialize_nodes(_)
serialize_node(n) ==
    CASE n.k = "text" -> IF n.text = <<>> THEN <<>> ELSE <<TextTok(esc_text(n.text))>>
      [] n.k = "comment" -> <<CommentTok(n.text)>>
      [] OTHER ->
            IF is_void(n.tag) THEN <<TagVoid(n.tag, EscAttrs(n.attrs))>>
            ELSE PushStr(PushStr(<<TagOpen(n.tag, EscAttrs(n.attrs))>>, serialize_nodes(n.kids)),
                         <<TagClose(n.tag)>>)

serialize_nodes(nodes) ==
    IF nodes = <<>> THEN <<>>
    ELSE PushStr(serialize_node(Head(nodes)), serialize_nodes(Tail(nodes)))

\* the character references the parser decodes back: those of esc_text/esc_attr
RECURSIVE Unescape(_)
Unescape(s) ==
    IF s = <<>> THEN <<>>
    ELSE IF StartsWithAt(s, 0, <<"&", "a", "m", "p", ";">>)
        THEN <<"&">> \o Unescape(SubSeq(s, 6, Len(s)))
    ELSE IF StartsWithAt(s, 0, <<"&", "l", "t", ";">>)
        THEN <<"<">> \o Unescape(SubSeq(s, 5, Len(s)))
    ELSE IF StartsWithAt(s, 0, <<"&", "g", "t", ";">>)
        THEN <<">">> \o Unescape(SubSeq(s, 5, Len(s)))
    ELSE IF StartsWithAt(s, 0, <<"&", "q", "u", "o", "t", ";">>)
        THEN <<"\"">> \o Unescape(SubSeq(s, 7, Len(s)))
    ELSE <<Head(s)>> \o Unescape(Tail(s))

UnescAttrs(attrs) == [n \in 1..Len(attrs) |-> Attr(attrs[n].name, Unescape(attrs[n].value))]

\* parse_to_dom + find_body_children on a string one of the stages wrote:
\* the nodes from token i on, up to the end tag that closes the parent.
\* Returns [nodes, next].  The documents of the model nest only as the HTML
\* parser leaves them, so inside <body> the tree read back is the tree
\* written.
RECURSIVE ParseNodes(_, _)
ParseNodes(toks, i) ==
    IF i > Len(toks) THEN [nodes |-> <<>>, next |-> i]
    ELSE LET tok == toks[i] IN
    CASE tok.t = "close" -> [nodes |-> <<>>, next |-> i + 1]
      [] tok.t = "open" ->
            LET inner == ParseNodes(toks, i + 1)
                rest == ParseNodes(toks, inner.next)
            IN  [nodes |-> <<Elem(tok.tag, UnescAttrs(tok.attrs), inner.nodes)>> \o rest.nodes,
                 next |-> rest.next]
      [] tok.t = "void" ->
            LET rest == ParseNodes(toks, i + 1)
            IN  [nodes |-> <<Elem(tok.tag, UnescAttrs(tok.attrs), <<>>)>> \o rest.nodes,
                 next |-> rest.next]
      [] tok.t = "comment" ->
            LET rest == ParseNodes(toks, i + 1)
            IN  [nodes |-> <<CommentNode(tok.text)>> \o rest.nodes, next |-> rest.next]
      [] OTHER ->
            LET rest == ParseNodes(toks, i + 1)
            IN  [nodes |-> <<TextNode(Unescape(tok.text))>> \o rest.nodes, next |-> rest.next]

\* What the parser does with the start of a string that has no <body> tag:
\* comments and white space that come before the first other token are not
\* put in <body> (the comments become children of the document or of
\* <html>), so find_body_children does not return them.
RECURSIVE SkipProlog(_)
SkipProlog(h) ==
    IF h = <<>> THEN <<>>
    ELSE IF Head(h).t = "comment" THEN SkipProlog(Tail(h))
    ELSE IF Head(h).t = "text"
    THEN IF TrimStart(Head(h).text) = <<>> THEN SkipProlog(Tail(h))
         ELSE <<TextTok(TrimStart(Head(h).text))>> \o Tail(h)
    ELSE h

parse_to_dom(h) == ParseNodes(SkipProlog(h), 1).nodes

----------------------------------------------------------------------------
(* sanitize.rs *)

\* mutant: span is kept too
is_keep_tag_with_span(lower) ==
    lower \in {"div", "p", "br", "hr", "b", "strong", "i", "em", "u", "s", "sub", "sup",
               "pre", "code", "blockquote", "ul", "ol", "li", "table", "thead", "tbody",
               "tr", "th", "td", "h1", "h2", "h3", "h4", "h5", "h6", "a", "img", "math",
               "span"}

is_keep_tag(lower) ==
    lower \in {"div", "p", "br", "hr", "b", "strong", "i", "em", "u", "s", "sub", "sup",
               "pre", "code", "blockquote", "ul", "ol", "li", "table", "thead", "tbody",
               "tr", "th", "td", "h1", "h2", "h3", "h4", "h5", "h6", "a", "img", "math"}

\* mutant: svg is not among the dropped tags
is_drop_content_tag_but_svg(lower) ==
    lower \in {"script", "style", "noscript", "template", "iframe", "object", "embed"}

is_drop_content_tag(lower) ==
    lower \in {"script", "style", "noscript", "template", "iframe", "object", "embed", "svg"}

sanitize_href(href) ==
    LET h == Trim(href) IN
    IF h = <<>> THEN <<>>
    ELSE IF AsciiLower(h[1]) \in {"javascript:", "data:", "vbscript:"} THEN <<>>
    ELSE <<h>>

\* the attributes kept of `names`, in that order
KeepNamed(attrs, names) ==
    Concat([n \in 1..Len(names) |->
        IF AttrGet(attrs, names[n]) = <<>> THEN <<>>
        ELSE <<Attr(names[n], AttrGet(attrs, names[n])[1])>>])

keep_attrs(tag, attrs) ==
    LET t == AsciiLower(tag) IN
    CASE t = "a" ->
            (IF AttrGet(attrs, "href") # <<>> /\ sanitize_href(AttrGet(attrs, "href")[1]) # <<>>
             THEN <<Attr("href", sanitize_href(AttrGet(attrs, "href")[1])[1])>>
             ELSE <<>>) \o KeepNamed(attrs, <<"title">>)
      [] t = "img" -> KeepNamed(attrs, <<"src", "alt", "title", "width", "height">>)
      [] t \in {"td", "th"} -> KeepNamed(attrs, <<"colspan", "rowspan">>)
      [] t = "math" -> KeepNamed(attrs, <<"xmlns", "display">>)
      [] OTHER -> <<>>

\* find_first_math: <<node>>, or <<>> for None
RECURSIVE FirstMathIn(_)
find_first_math(node) ==
    IF node.k = "elem" /\ AsciiLower(node.tag) = "math" THEN <<node>>
    ELSE FirstMathIn(node.kids)

FirstMathIn(nodes) ==
    IF nodes = <<>> THEN <<>>
    ELSE IF find_first_math(Head(nodes)) # <<>> THEN find_first_math(Head(nodes))
    ELSE FirstMathIn(Tail(nodes))

ends_with_space(nodes) ==
    /\ nodes # <<>>
    /\ nodes[Len(nodes)].k = "text"
    /\ nodes[Len(nodes)].text # <<>>
    /\ IsWhitespace(nodes[Len(nodes)].text[Len(nodes[Len(nodes)].text)])

\* class.to_ascii_lowercase().split_whitespace().any(katex | katex-display)
has_katex_class(attrs) ==
    /\ AttrGet(attrs, "class") # <<>>
    /\ \E n \in 1..Len(AttrGet(attrs, "class")[1]) :
            AsciiLower(AttrGet(attrs, "class")[1][n]) \in {"katex", "katex-display"}

\* attrs_map(node).into_iter().collect::<Vec<_>>(): the iteration order of a
\* HashMap is not fixed; `order` picks it
HashOrder(attrs, order) ==
    IF order = "rev" THEN [n \in 1..Len(attrs) |-> attrs[Len(attrs) + 1 - n]] ELSE attrs

RECURSIVE sanitize_node(_, _, _, _), sanitize_children(_, _, _, _)
sanitize_node(node, in_math, in_li, order) ==
    IF node.k # "elem" THEN <<node>>
    ELSE
    LET tag_lower == AsciiLower(node.tag)
        now_in_li == in_li \/ tag_lower = "li"
    IN
    IF in_math
    THEN <<Elem(node.tag, HashOrder(node.attrs, order),
                sanitize_children(node.kids, TRUE, in_li, order))>>
    ELSE IF is_drop_content_tag(tag_lower) THEN <<>>
    ELSE IF tag_lower = "span" /\ has_katex_class(node.attrs) /\ find_first_math(node) # <<>>
    THEN sanitize_node(find_first_math(node)[1], FALSE, in_li, order)
    ELSE IF tag_lower = "math"
    THEN <<Elem("math", keep_attrs("math", node.attrs),
                sanitize_children(node.kids, TRUE, in_li, order))>>
    ELSE IF now_in_li /\ tag_lower \in {"p", "div"}
    THEN LET kids == sanitize_children(node.kids, FALSE, TRUE, order) IN
         IF ends_with_space(kids) THEN kids ELSE Append(kids, TextNode(<<" ">>))
    ELSE IF ~is_keep_tag(tag_lower)
    THEN sanitize_children(node.kids, FALSE, now_in_li, order)
    ELSE <<Elem(node.tag, keep_attrs(node.tag, node.attrs),
                sanitize_children(node.kids, FALSE, now_in_li, order))>>

sanitize_children(children, in_math, in_li, order) ==
    IF children = <<>> THEN <<>>
    ELSE sanitize_node(Head(children), in_math, in_li, order)
            \o sanitize_children(Tail(children), in_math, in_li, order)

\* sanitize_for_office on the parsed body children
sanitize_for_office(children, order) ==
    serialize_nodes(sanitize_children(children, FALSE, FALSE, order))

----------------------------------------------------------------------------
(* The text scan on its own: the contents of one text node, any string     *)
(* over TextChars of at most MaxTextLen characters.                        *)

TextChars == {"$", "1", ",", "x", " "}

RECURSIVE Strings(_, _)
Strings(alphabet, n) ==
    IF n = 0 THEN {<<>>}
    ELSE LET shorter == Strings(alphabet, n - 1) IN
         shorter \cup {Append(s, c) : s \in {x \in shorter : Len(x) = n - 1}, c \in alphabet}

NoRet == [ok |-> TRUE, html |-> <<>>]

InitText ==
    /\ pc = "text"
    /\ text \in Strings(TextChars, MaxTextLen)
    /\ dom = <<>>
    /\ html = <<>>
    /\ jobs = <<>>
    /\ spans = <<>>
    /\ out_mathml = <<>>
    /\ joined = <<>>
    /\ ret = NoRet
    /\ DocxIdle

\* walk() of the text pass on a text node outside code/pre, with the pass's
\* empty `out` and `jobs`
ScanTextNode ==
    /\ pc = "text"
    /\ LET st == emit_text_with_tex_placeholders(<<>>, text, <<>>) IN
        /\ html' = st.out
        /\ jobs' = st.jobs
        /\ spans' = st.spans
    /\ pc' = "scanned"
    /\ UNCHANGED <<dom, text, out_mathml, joined, ret, docx_vars>>

NextText == ScanTextNode

SpecText == InitText /\ [][NextText]_vars

----------------------------------------------------------------------------
(* Claims about the text scan. *)

\* the offset where the run of non-whitespace, non-"$" characters after
\* offset p stops
RunStop(s, p) ==
    CHOOSE k \in (p + 1)..Len(s) :
        /\ k = Len(s) \/ IsWhitespace(s[k + 1]) \/ s[k + 1] = "$"
        /\ \A m \in (p + 1)..(k - 1) : ~IsWhitespace(s[m + 1]) /\ s[m + 1] # "$"

CurrencyChar(c) == IsAsciiDigit(c) \/ c = "," \/ c = "."

\* a "$" at offset p followed by a non-empty run of digits, commas and periods
IsCurrencyDollar(s, p) ==
    /\ p < Len(s)
    /\ s[p + 1] = "$"
    /\ RunStop(s, p) > p + 1
    /\ \A m \in (p + 1)..(RunStop(s, p) - 1) : CurrencyChar(s[m + 1])

Covered(p) == \E n \in 1..Len(spans) : spans[n][1] <= p /\ p < spans[n][2]

\* the characters of the text nodes of an HTML string, in order
RECURSIVE LiteralOf(_)
LiteralOf(h) ==
    IF h = <<>> THEN <<>>
    ELSE (IF Head(h).t = "text" THEN Head(h).text ELSE <<>>) \o LiteralOf(Tail(h))

\* the characters of the text under scan that lie in no job's span
Uncovered ==
    LET keep == SelectSeq([n \in 1..Len(text) |-> n - 1], LAMBDA p : ~Covered(p))
    IN  [n \in 1..Len(keep) |-> text[keep[n] + 1]]

\* Slice(text, q + 1, r) is the inside of a "$...$" pair that is math: no "$"
\* inside, not blank, not all digits, commas and periods, and the opening "$"
\* is not itself a currency "$"
IsMathPair(q, r) ==
    /\ q < r /\ r < Len(text)
    /\ text[q + 1] = "$" /\ text[r + 1] = "$"
    /\ \A m \in (q + 1)..(r - 1) : text[m + 1] # "$"
    /\ ~IsCurrencyDollar(text, q)
    /\ \E m \in (q + 1)..(r - 1) : ~CurrencyChar(text[m + 1]) /\ ~IsWhitespace(text[m + 1])

----------------------------------------------------------------------------
(* office_apply_mathml on its own: any html of at most MaxHtmlLen pieces   *)
(* and any joined string of at most MaxParts pieces.                       *)

PlainComment == CommentTok(<<"n", "o", "t", "e">>)

\* the two conversion results a joined string is made of
ResultA == MathmlTok(<<"a">>, FALSE)
ResultB == MathmlTok(<<"b">>, TRUE)

HtmlPieces ==
    {TextTok(<<"t">>), PlainComment} \cup {Marker(n) : n \in 0..(MaxParts - 1)}

\* two text pieces side by side are one text piece of the string
NoAdjacentText(h) ==
    \A n \in 1..(Len(h) - 1) : ~(h[n].t = "text" /\ h[n + 1].t = "text")

InitApply ==
    /\ pc = "apply"
    /\ html \in {h \in Strings(HtmlPieces, MaxHtmlLen) : NoAdjacentText(h)}
    /\ joined \in Strings({SepTok, ResultA, ResultB}, MaxParts)
    /\ dom = <<>>
    /\ text = <<>>
    /\ jobs = <<>>
    /\ spans = <<>>
    /\ out_mathml = <<>>
    /\ ret = NoRet
    /\ DocxIdle

\* a call of office_apply_mathml(html, joined)
ApplyMathml ==
    /\ pc = "apply"
    /\ ret' = office_apply_mathml(html, joined)
    /\ pc' = "applied"
    /\ UNCHANGED <<dom, text, html, jobs, spans, out_mathml, joined, docx_vars>>

NextApply == ApplyMathml

SpecApply == InitApply /\ [][NextApply]_vars

\* the parts office_apply_mathml is given
PartsOf(j) == IF j = <<>> THEN <<>> ELSE Split(j)

\* the supplied indices whose marker is absent from h, ascending
AbsentIndices(h, j) ==
    SelectSeq([n \in 1..Len(PartsOf(j)) |-> n - 1], LAMBDA i : ~ContainsMarker(h, i))

\* h with every marker of a supplied index replaced by that index's part and
\* everything else kept
RECURSIVE Substituted(_, _)
Substituted(h, parts) ==
    IF h = <<>> THEN <<>>
    ELSE LET hit == {i \in 0..(Len(parts) - 1) : Head(h) = Marker(i)} IN
         PushStr(IF hit = {} THEN <<Head(h)>> ELSE parts[(CHOOSE i \in hit : TRUE) + 1],
                 Substituted(Tail(h), parts))

\* C4: office_apply_mathml returns Ok whether or not markers are missing; a
\* missing index is skipped, every marker present for a supplied index is
\* replaced by that index's result, and nothing else of the html changes
\* (apart from the trailing diagnostic comment).
C4_ApplyIsNonFatal ==
    pc = "applied" =>
        /\ ret.ok
        /\ \A i \in 0..(Len(PartsOf(joined)) - 1) : ~ContainsMarker(ret.html, i)
        /\ LET want == Substituted(html, PartsOf(joined)) IN
            \/ ret.html = want
            \/ ret.html = Append(want, WarnComment(AbsentIndices(html, joined)))

\* marker 1 is there, marker 0 is not: Ok, marker 1 replaced by result 1
C4_Witness ==
    /\ pc = "applied"
    /\ html = <<TextTok(<<"t">>), Marker(1)>>
    /\ joined = <<ResultA, SepTok, ResultB>>
    /\ ret.ok
    /\ SubSeq(ret.html, 1, 2) = <<TextTok(<<"t">>), ResultB>>

\* C5: when the marker of a supplied index is absent, the returned html ends
\* with one diagnostic comment listing exactly the absent indices in
\* ascending order, whatever the html holds; otherwise none is appended.
C5_MissingIdsAreReported ==
    pc = "applied" =>
        LET absent == AbsentIndices(html, joined)
            want == Substituted(html, PartsOf(joined))
        IN  IF absent # <<>>
            THEN ret.html = Append(want, WarnComment(absent))
            ELSE ret.html = want

----------------------------------------------------------------------------
(* Documents.  The trees a specification starts from are those the HTML    *)
(* parser builds: an element of a palette names the context its children   *)
(* are drawn from, so that no nesting here is one the parser would         *)
(* rearrange (li in li, a in a, flow content in a raw-text element).       *)

ElemHead(tag, attrs, sub) == [tag |-> tag, attrs |-> attrs, sub |-> sub]

JsHref == <<"javascript:", "alert(1)">>
OkHref == <<"https://x">>

\* the sanitizer's documents
SanitizeHeads(ctx) ==
    CASE ctx \in {"body", "item"} ->
            {ElemHead("div", <<>>, ctx), ElemHead("x-foo", <<>>, ctx),
             ElemHead("span", ClassAttr("katex"), ctx),
             ElemHead("a", <<Attr("href", JsHref)>>, "inline"),
             ElemHead("a", <<Attr("href", OkHref)>>, "inline"),
             ElemHead("svg", <<>>, "svg"), ElemHead("script", <<>>, "inline"),
             ElemHead("math", <<>>, "math")}
            \cup (IF ctx = "body" THEN {ElemHead("li", <<>>, "item")} ELSE {})
      [] ctx = "svg" -> {ElemHead("math", <<>>, "svgmath")}
      [] ctx = "svgmath" -> {ElemHead("mi", <<>>, "inline")}
      [] ctx = "math" -> {ElemHead("mi", <<>>, "inline"), ElemHead("mtext", <<>>, "mtext"),
                          ElemHead("svg", <<>>, "inline")}
      [] ctx = "mtext" -> {ElemHead("a", <<Attr("href", JsHref)>>, "inline")}
      [] OTHER -> {}

\* the documents of the whole pipeline: elements carrying data-math (a block
\* tag, an inline tag, and an inline tag with a class that names display
\* math, in either case, or another class), text
\* with a "$x$" pair, a code element, a katex span (whose collapse to its
\* math element loses what else it holds) and a comment of the input that
\* is spelled like a placeholder marker
OfficeHeads(ctx) ==
    CASE ctx = "body" ->
            {ElemHead("div", <<Attr("data-math", <<"a">>)>>, "none"),
             ElemHead("span", <<Attr("data-math", <<"b">>)>>, "none"),
             ElemHead("span", ClassAttr("Math-Block") \o <<Attr("data-math", <<"b">>)>>, "none"),
             ElemHead("span", ClassAttr("katex-display") \o <<Attr("data-math", <<"b">>)>>,
                      "none"),
             ElemHead("span", ClassAttr("note") \o <<Attr("data-math", <<"b">>)>>, "none"),
             ElemHead("p", <<>>, "phrase"), ElemHead("code", <<>>, "phrase"),
             ElemHead("span", ClassAttr("katex"), "katex")}
      [] ctx = "phrase" -> {ElemHead("span", <<Attr("data-math", <<"b">>)>>, "none")}
      [] ctx = "katex" -> {ElemHead("span", <<Attr("data-math", <<"b">>)>>, "none"),
                           ElemHead("math", <<>>, "none")}
      [] OTHER -> {}

OfficeLeaves(ctx) ==
    IF ctx \in {"none", "katex"} THEN {}
    ELSE {TextNode(<<"$", "x", "$">>), CommentNode(MarkerText(1))}

\* the documents of docx_from_html with lists: nested ul and ol, an li
\* outside any list, text in the items, and a table inside an item whose
\* cell holds an li
ListHeads(ctx) ==
    CASE ctx = "body" -> {ElemHead("ul", <<>>, "list"), ElemHead("li", <<>>, "item")}
      [] ctx = "list" -> {ElemHead("li", <<>>, "item")}
      [] ctx = "item" ->
            {ElemHead("ul", <<>>, "list"), ElemHead("ol", <<>>, "list"),
             ElemHead("table", <<>>, "table")}
      [] ctx = "table" -> {ElemHead("tr", <<>>, "row")}
      [] ctx = "row" -> {ElemHead("td", <<>>, "cell")}
      [] ctx = "cell" -> {ElemHead("li", <<>>, "text")}
      [] OTHER -> {}

\* the documents of docx_from_html with tables: rows of td and th cells (also
\* a row without cells) that hold text, a paragraph, an li or another table
TableHeads(ctx) ==
    CASE ctx = "body" -> {ElemHead("table", <<>>, "table")}
      [] ctx = "table" -> {ElemHead("tr", <<>>, "row")}
      [] ctx = "row" -> {ElemHead("td", <<>>, "cell"), ElemHead("th", <<>>, "cell")}
      [] ctx = "cell" ->
            {ElemHead("p", <<>>, "text"), ElemHead("li", <<>>, "text"),
             ElemHead("table", <<>>, "table2")}
      [] ctx = "table2" -> {ElemHead("tr", <<>>, "row2")}
      [] ctx = "row2" -> {ElemHead("td", <<>>, "text")}
      [] OTHER -> {}

\* a conditional comment of Word that holds an equation
OmmlComment == <<"[if gte ", "msEquation", " 12", "]>", "<m:", "omath", "<![endif]">>

\* the documents of docx_from_html with paragraphs: headings, paragraphs,
\* pre elements and an li that hold text, blank text, a break or a heading or paragraph of
\* their own, and an equation comment
BlockHeads(ctx) ==
    CASE ctx = "body" ->
            {ElemHead("h1", <<>>, "text"), ElemHead("p", <<>>, "text"),
             ElemHead("pre", <<>>, "text"), ElemHead("li", <<>>, "item"),
             ElemHead("br", <<>>, "none")}
      [] ctx = "item" -> {ElemHead("p", <<>>, "text"), ElemHead("h1", <<>>, "text")}
      [] ctx = "text" -> {ElemHead("br", <<>>, "none")}
      [] OTHER -> {}

BlockLeaves(ctx) ==
    CASE ctx = "body" -> {TextNode(<<"t">>), TextNode(<<" ">>), CommentNode(OmmlComment)}
      [] ctx \in {"item", "text"} -> {TextNode(<<"t">>), TextNode(<<" ">>)}
      [] OTHER -> {}

\* the documents of docx_from_html with hyperlinks: a elements in the body
\* and in the cells of a table, of three targets, one of them with a
\* character that XML escapes
LinkHeads(ctx) ==
    CASE ctx = "body" ->
            {ElemHead("a", <<Attr("href", <<"https://y">>)>>, "text"),
             ElemHead("table", <<>>, "table")}
      [] ctx = "table" -> {ElemHead("tr", <<>>, "row")}
      [] ctx = "row" -> {ElemHead("td", <<>>, "cell")}
      [] ctx = "cell" ->
            {ElemHead("a", <<Attr("href", <<"https://x">>)>>, "text"),
             ElemHead("a", <<Attr("href", <<"https://x", "&">>)>>, "text")}
      [] OTHER -> {}

LinkLeaves(ctx) == IF ctx = "text" THEN {TextNode(<<"t">>)} ELSE {}

\* the documents of the attribute-driven pass: elements carrying data-math
\* in the body, in a paragraph, on a math element, inside one, inside svg,
\* and inside an element that carries data-math itself; the text "u" and
\* the value "c" occur only where nothing is to be extracted
DataMathHeads(ctx) ==
    CASE ctx = "body" ->
            {ElemHead("div", <<Attr("data-math", <<"a">>)>>, "gone"),
             ElemHead("math", <<Attr("data-math", <<"c">>)>>, "inmath"),
             ElemHead("svg", <<>>, "gone"), ElemHead("p", <<>>, "plain")}
      [] ctx = "plain" -> {ElemHead("span", <<Attr("data-math", <<"b">>)>>, "gone")}
      [] ctx = "gone" -> {ElemHead("span", <<Attr("data-math", <<"c">>)>>, "none")}
      [] ctx = "inmath" -> {ElemHead("mi", <<Attr("data-math", <<"c">>)>>, "none")}
      [] OTHER -> {}

DataMathLeaves(ctx) ==
    CASE ctx \in {"body", "plain"} -> {TextNode(<<"t">>)}
      [] ctx = "gone" -> {TextNode(<<"u">>)}
      [] OTHER -> {}

\* the documents the sanitizer is called on twice: math elements, in the
\* body and in a paragraph, that hold elements with two attributes, with one
\* and with none
AttrHeads(ctx) ==
    CASE ctx = "body" ->
            {ElemHead("math", <<Attr("display", <<"block">>)>>, "math"),
             ElemHead("p", <<>>, "para")}
      [] ctx = "para" -> {ElemHead("math", <<>>, "math")}
      [] ctx = "math" ->
            {ElemHead("mi", <<Attr("mathvariant", <<"bold">>), Attr("class", <<"c">>)>>, "mi"),
             ElemHead("mi", <<Attr("class", <<"c">>)>>, "mi"),
             ElemHead("mrow", <<>>, "math")}
      [] OTHER -> {}

AttrLeaves(ctx) == IF ctx \in {"para", "mi"} THEN {TextNode(<<"x">>)} ELSE {}

ListLeaves(ctx) == IF ctx \in {"item", "text"} THEN {TextNode(<<"t">>)} ELSE {}

TableLeaves(ctx) == IF ctx \in {"cell", "text"} THEN {TextNode(<<"t">>)} ELSE {}

Heads(pal, ctx) ==
    CASE pal = "sanitize" -> SanitizeHeads(ctx)
      [] pal = "lists" -> ListHeads(ctx)
      [] pal = "tables" -> TableHeads(ctx)
      [] pal = "blocks" -> BlockHeads(ctx)
      [] pal = "links" -> LinkHeads(ctx)
      [] pal = "datamath" -> DataMathHeads(ctx)
      [] pal = "attrs" -> AttrHeads(ctx)
      [] OTHER -> OfficeHeads(ctx)

Leaves(pal, ctx) ==
    CASE pal = "sanitize" -> {TextNode(<<"t">>)}
      [] pal = "lists" -> ListLeaves(ctx)
      [] pal = "tables" -> TableLeaves(ctx)
      [] pal = "blocks" -> BlockLeaves(ctx)
      [] pal = "links" -> LinkLeaves(ctx)
      [] pal = "datamath" -> DataMathLeaves(ctx)
      [] pal = "attrs" -> AttrLeaves(ctx)
      [] OTHER -> OfficeLeaves(ctx)

\* the forests of exactly n nodes in a context, no two text nodes adjacent
RECURSIVE ForestsOf(_, _, _), TreesOf(_, _, _)
TreesOf(pal, ctx, n) ==
    IF n = 0 THEN {}
    ELSE (IF n = 1 THEN Leaves(pal, ctx) ELSE {})
         \cup UNION {{Elem(hd.tag, hd.attrs, kids) : kids \in ForestsOf(pal, hd.sub, n - 1)} :
                        hd \in Heads(pal, ctx)}

ForestsOf(pal, ctx, n) ==
    IF n = 0 THEN {<<>>}
    ELSE UNION {LET firsts == TreesOf(pal, ctx, m)
                    rests == ForestsOf(pal, ctx, n - m)
                IN  {pair[1] \o pair[2] : pair \in
                        {q \in {<<f>> : f \in firsts} \X rests :
                            ~(q[1][1].k = "text" /\ q[2] # <<>> /\ q[2][1].k = "text")}} :
                m \in 1..n}

Documents(pal, n) == UNION {ForestsOf(pal, "body", m) : m \in 0..n}

----------------------------------------------------------------------------
(* The sanitizer on its own. *)

InitSanitize ==
    /\ pc = "sanitize"
    /\ dom \in Documents("sanitize", MaxNodes)
    /\ text = <<>>
    /\ html = <<>>
    /\ jobs = <<>>
    /\ spans = <<>>
    /\ out_mathml = <<>>
    /\ joined = <<>>
    /\ ret = NoRet
    /\ DocxIdle

\* sanitize_for_office(input), input's body children being `dom`
SanitizeForOffice ==
    /\ pc = "sanitize"
    /\ \E order \in {"fwd", "rev"} : html' = sanitize_for_office(dom, order)
    /\ pc' = "sanitized"
    /\ UNCHANGED <<dom, text, jobs, spans, out_mathml, joined, ret, docx_vars>>

NextSanitize == SanitizeForOffice

SpecSanitize == InitSanitize /\ [][NextSanitize]_vars

\* the tags of the elements of a serialised document that lie outside every
\* math element; depth counts the open elements from the enclosing math down
RECURSIVE TagsOutsideMath(_, _, _)
TagsOutsideMath(h, i, depth) ==
    IF i > Len(h) THEN {}
    ELSE LET tok == h[i] IN
    IF depth > 0
    THEN TagsOutsideMath(h, i + 1,
            CASE tok.t = "open" -> depth + 1 [] tok.t = "close" -> depth - 1 [] OTHER -> depth)
    ELSE IF tok.t \in {"open", "void"}
    THEN {tok.tag} \cup TagsOutsideMath(h, i + 1,
            IF tok.t = "open" /\ tok.tag = "math" THEN 1 ELSE 0)
    ELSE TagsOutsideMath(h, i + 1, 0)

AllowList ==
    {"div", "p", "br", "hr", "b", "strong", "i", "em", "u", "s", "sub", "sup", "pre",
     "code", "blockquote", "ul", "ol", "li", "table", "thead", "tbody", "tr", "th", "td",
     "h1", "h2", "h3", "h4", "h5", "h6", "a", "img", "math"}

ContentOnly ==
    {"script", "style", "noscript", "template", "iframe", "object", "embed", "svg"}

\* a span of class katex / katex-display that has a math descendant
IsKatexScaffold(n) ==
    /\ n.tag = "span"
    /\ AttrGet(n.attrs, "class") # <<>>
    /\ \E m \in 1..Len(AttrGet(n.attrs, "class")[1]) :
            AttrGet(n.attrs, "class")[1][m] \in {"katex", "katex-display"}
    /\ find_first_math(n) # <<>>

\* the document with every element outside the allow-list replaced by its
\* children; math subtrees, content-only elements and the katex scaffold keep
\* their own rules
RECURSIVE UnwrapUnlisted(_)
UnwrapUnlisted(nodes) ==
    IF nodes = <<>> THEN <<>>
    ELSE LET n == Head(nodes)
             rest == UnwrapUnlisted(Tail(nodes))
         IN
         IF n.k # "elem" \/ n.tag = "math" \/ n.tag \in ContentOnly THEN <<n>> \o rest
         ELSE IF n.tag \in AllowList \/ IsKatexScaffold(n)
         THEN <<Elem(n.tag, n.attrs, UnwrapUnlisted(n.kids))>> \o rest
         ELSE UnwrapUnlisted(n.kids) \o rest

\* C7: outside math, every element of the sanitizer's output has a tag of the
\* allow-list, and an element outside the list is unwrapped: the output is
\* that of the document in which each such element is replaced, in place, by
\* its children.
C7_OnlyAllowListedTags ==
    pc = "sanitized" =>
        /\ TagsOutsideMath(html, 1, 0) \subseteq AllowList
        /\ \E order \in {"fwd", "rev"} :
                html = sanitize_for_office(UnwrapUnlisted(dom), order)

\* <div><x-foo>t</x-foo></div> comes out as <div>t</div>
C7_Witness ==
    /\ pc = "sanitized"
    /\ dom = <<Elem("div", <<>>, <<Elem("x-foo", <<>>, <<TextNode(<<"t">>)>>)>>)>>
    /\ html = <<TagOpen("div", <<>>), TextTok(<<"t">>), TagClose("div")>>

\* the document without the content-only elements that lie outside math
RECURSIVE PruneContentOnly(_)
PruneContentOnly(nodes) ==
    IF nodes = <<>> THEN <<>>
    ELSE LET n == Head(nodes)
             rest == PruneContentOnly(Tail(nodes))
         IN
         IF n.k # "elem" \/ n.tag = "math" THEN <<n>> \o rest
         ELSE IF n.tag \in ContentOnly THEN rest
         ELSE <<Elem(n.tag, n.attrs, PruneContentOnly(n.kids))>> \o rest

\* C9: nothing inside a content-only element that lies outside math reaches
\* the sanitizer's output: the output is that of the document without those
\* elements, also where a katex span is collapsed to its first math
\* descendant.
C9_ContentOnlyContributesNothing ==
    pc = "sanitized" =>
        \E order \in {"fwd", "rev"} :
            html = sanitize_for_office(PruneContentOnly(dom), order)

\* a target that is empty after trimming or names a script scheme
IsRejectedHref(v) ==
    \/ Trim(v) = <<>>
    \/ AsciiLower(Trim(v)[1]) \in {"javascript:", "data:", "vbscript:"}

\* C8: no a element of the sanitizer's output carries an href that is empty
\* after trimming or starts with javascript:, data: or vbscript:.
C8_NoRejectedHrefSurvives ==
    pc = "sanitized" =>
        \A i \in 1..Len(html) :
            (html[i].t = "open" /\ html[i].tag = "a") =>
                \A v \in {x \in {AttrGet(html[i].attrs, "href")} : x # <<>>} :
                    ~IsRejectedHref(Unescape(v[1]))

----------------------------------------------------------------------------
(* pipeline.rs: the two extraction passes, office.rs, and the calls that   *)
(* chain them.                                                             *)

\* class_lower.contains(pat), class_lower being words and spaces
ContainsWord(class_lower, pat) ==
    \E n \in 1..Len(class_lower) :
        \/ class_lower[n] = pat
        \/ class_lower[n] = "cof-" \o pat

\* is_block_math_dom deciding on the tag alone
is_block_math_dom_by_tag(tag_lower, class_lower) ==
    tag_lower \in {"div", "p", "li", "section", "article", "td", "th"}

is_block_math_dom(tag_lower, class_lower) ==
    \/ tag_lower \in {"div", "p", "li", "section", "article", "td", "th"}
    \/ ContainsWord(class_lower, "math-block")
    \/ ContainsWord(class_lower, "katex-display")

\* walk() of replace_data_math_blocks_with_placeholders_dom; st = [out, jobs].
\* in_drop is never true where the walk goes on, so it is not a parameter.
RECURSIVE DataMathWalk(_, _, _), DataMathWalkAll(_, _, _)
DataMathWalk(node, st, in_math) ==
    CASE node.k = "text" -> [st EXCEPT !.out = PushText(@, esc_text(node.text))]
      [] node.k = "comment" -> [st EXCEPT !.out = Append(@, CommentTok(node.text))]
      [] OTHER ->
        LET tag_lower == AsciiLower(node.tag)
            now_in_math == in_math \/ tag_lower = "math"
            data_math == AttrGet(node.attrs, "data-math")
            class_lower == IF AttrGet(node.attrs, "class") = <<>> THEN <<>>
                           ELSE LowerAll(AttrGet(node.attrs, "class")[1])
        IN
        IF is_drop_content_tag(tag_lower) THEN st
        ELSE IF ~now_in_math /\ data_math # <<>>
        THEN LET id == Len(st.jobs)
                 display == is_block_math_dom(tag_lower, class_lower)
                 latex == normalize_latex(Trim(decode_entities(data_math[1])))
             IN  [out |-> PushStr(st.out, placeholder_for(id, display)),
                  jobs |-> Append(st.jobs, TexJob(id, latex, display))]
        ELSE IF is_void(node.tag)
        THEN [st EXCEPT !.out = Append(@, TagVoid(node.tag, EscAttrs(node.attrs)))]
        ELSE LET inner == DataMathWalkAll(node.kids,
                            [st EXCEPT !.out = Append(@, TagOpen(node.tag, EscAttrs(node.attrs)))],
                            now_in_math)
             IN  [inner EXCEPT !.out = Append(@, TagClose(node.tag))]

DataMathWalkAll(nodes, st, in_math) ==
    IF nodes = <<>> THEN st
    ELSE DataMathWalkAll(Tail(nodes), DataMathWalk(Head(nodes), st, in_math), in_math)

\* returns [out, jobs]
replace_data_math_blocks_with_placeholders_dom(children) ==
    DataMathWalkAll(children, [out |-> <<>>, jobs |-> <<>>], FALSE)

\* walk() of inject_text_math_placeholders_in_sanitized_html; st = [out, jobs]
RECURSIVE TextMathWalk(_, _, _), TextMathWalkAll(_, _, _)
TextMathWalk(node, st, in_code) ==
    CASE node.k = "text" ->
            IF in_code THEN [st EXCEPT !.out = PushText(@, esc_text(node.text))]
            ELSE LET r == emit_text_with_tex_placeholders(st.out, node.text, st.jobs)
                 IN  [out |-> r.out, jobs |-> r.jobs]
      [] node.k = "comment" -> [st EXCEPT !.out = Append(@, CommentTok(node.text))]
      [] OTHER ->
        LET tag_lower == AsciiLower(node.tag)
            now_in_code == in_code \/ tag_lower = "code" \/ tag_lower = "pre"
        IN
        IF is_void(node.tag)
        THEN [st EXCEPT !.out = Append(@, TagVoid(node.tag, EscAttrs(node.attrs)))]
        ELSE LET inner == TextMathWalkAll(node.kids,
                            [st EXCEPT !.out = Append(@, TagOpen(node.tag, EscAttrs(node.attrs)))],
                            now_in_code)
             IN  [inner EXCEPT !.out = Append(@, TagClose(node.tag))]

TextMathWalkAll(nodes, st, in_code) ==
    IF nodes = <<>> THEN st
    ELSE TextMathWalkAll(Tail(nodes), TextMathWalk(Head(nodes), st, in_code), in_code)

\* returns [out, jobs]: the pass starts from its own empty `jobs`
inject_text_math_placeholders_in_sanitized_html(input_html) ==
    TextMathWalkAll(parse_to_dom(input_html), [out |-> <<>>, jobs |-> <<>>], FALSE)

\* office.rs: the style html_to_office_html adds to a start tag, <<>> for none
OfficeStyle(lower) ==
    CASE lower = "code" -> <<"font-family:Consolas, 'Courier New', monospace; background:#f5f5f5; padding:0 2px; border-radius:2px;">>
      [] lower = "pre" -> <<"font-family:Consolas, 'Courier New', monospace; background:#f5f5f5; padding:8px; border-radius:4px; white-space:pre-wrap;">>
      [] lower = "a" -> <<"color:#1155cc; text-decoration:underline;">>
      [] lower = "blockquote" -> <<"border-left:3px solid #ccc; margin:0 0 0 0; padding-left:12px; color:#555;">>
      [] lower = "table" -> <<"border-collapse:collapse;">>
      [] lower \in {"th", "td"} -> <<"border:1px solid #ddd; padding:4px 6px;">>
      [] lower \in {"ul", "ol"} -> <<"margin:0 0 0 0; padding-left:40px;">>
      [] lower = "li" -> <<"margin:0 0 0 0;">>
      [] lower = "img" -> <<"max-width:100%; height:auto; vertical-align:middle;">>
      [] OTHER -> <<>>

OfficeName(name) ==
    CASE AsciiLower(name) = "strong" -> "b"
      [] AsciiLower(name) = "em" -> "i"
      [] OTHER -> name

\* rest_str.to_ascii_lowercase().contains(" style="): an attribute named
\* style, or the same characters inside a value
HasStyle(attrs) ==
    \E n \in 1..Len(attrs) :
        \/ AsciiLower(attrs[n].name) = "style"
        \/ \E m \in 1..(Len(attrs[n].value) - 1) :
                attrs[n].value[m] = " " /\ AsciiLower(attrs[n].value[m + 1]) = "style="

\* one tag, comment or run of text of the input.  The "/" that ends a
\* "<tag .../>" is part of `rest` and is written back before the added
\* style: it is kept here as an attribute named "/".
OfficeTok(tok) ==
    CASE tok.t = "close" -> TagClose(OfficeName(tok.tag))
      [] tok.t \in {"open", "void"} ->
            [tok EXCEPT
                !.tag = OfficeName(tok.tag),
                !.attrs = tok.attrs
                    \o (IF tok.t = "void" THEN <<Attr("/", <<>>)>> ELSE <<>>)
                    \o (IF OfficeStyle(AsciiLower(tok.tag)) # <<>> /\ ~HasStyle(tok.attrs)
                        THEN <<Attr("style", OfficeStyle(AsciiLower(tok.tag)))>>
                        ELSE <<>>)]
      [] OTHER -> tok

html_to_office_html(input) == [n \in 1..Len(input) |-> OfficeTok(input[n])]

\* the Ok / Err arms of the match on tex::tex_to_mathml(&job.latex,
\* job.display): the converter is a library outside the repository, its
\* MathML is a math element (never empty) and is kept opaque here
ConvertJob(job, ok) == IF ok THEN <<MathmlTok(job.latex, job.display)>> ELSE <<>>

----------------------------------------------------------------------------
(* html_to_office_with_mathml(input_html), one step per call it makes.     *)

Init ==
    /\ pc = "data_math"
    /\ dom \in Documents("office", MaxNodes)
    /\ text = <<>>
    /\ html = <<>>
    /\ jobs = <<>>
    /\ spans = <<>>
    /\ out_mathml = <<>>
    /\ joined = <<>>
    /\ ret = NoRet
    /\ DocxIdle

\* pipeline.rs:418
ExtractDataMath ==
    /\ pc = "data_math"
    /\ LET r == replace_data_math_blocks_with_placeholders_dom(dom) IN
        /\ html' = r.out
        /\ jobs' = r.jobs
    /\ pc' = "sanitize_html"
    /\ UNCHANGED <<dom, text, spans, out_mathml, joined, ret, docx_vars>>

\* pipeline.rs:419
Sanitize ==
    /\ pc = "sanitize_html"
    /\ \E order \in {"fwd", "rev"} : html' = sanitize_for_office(parse_to_dom(html), order)
    /\ pc' = "text_math"
    /\ UNCHANGED <<dom, text, jobs, spans, out_mathml, joined, ret, docx_vars>>

\* pipeline.rs:420-422
InjectTextMath ==
    /\ pc = "text_math"
    /\ LET r == inject_text_math_placeholders_in_sanitized_html(html) IN
        /\ html' = r.out
        /\ jobs' = jobs \o r.jobs
    /\ pc' = "office_html"
    /\ UNCHANGED <<dom, text, spans, out_mathml, joined, ret, docx_vars>>

\* pipeline.rs:423-424: html and jobs are now the PreparedOffice
ToOfficeHtml ==
    /\ pc = "office_html"
    /\ html' = html_to_office_html(html)
    /\ pc' = "prepared"
    /\ UNCHANGED <<dom, text, jobs, spans, out_mathml, joined, ret, docx_vars>>

\* pipeline.rs:429-436
Convert ==
    /\ pc = "prepared"
    /\ \E results \in [1..Len(jobs) -> BOOLEAN] :
        /\ out_mathml' = [n \in 1..Len(jobs) |-> ConvertJob(jobs[n], results[n])]
        /\ joined' = Join(out_mathml')
    /\ pc' = "converted"
    /\ UNCHANGED <<dom, text, html, jobs, spans, ret, docx_vars>>

\* pipeline.rs:437
Apply ==
    /\ pc = "converted"
    /\ ret' = office_apply_mathml(html, joined)
    /\ pc' = "done"
    /\ UNCHANGED <<dom, text, html, jobs, spans, out_mathml, joined, docx_vars>>

Next ==
    \/ ExtractDataMath
    \/ Sanitize
    \/ InjectTextMath
    \/ ToOfficeHtml
    \/ Convert
    \/ Apply

Spec == Init /\ [][Next]_vars

\* C1: in the PreparedOffice, jobs[i].id = i for every index i, also where
\* both passes have produced jobs.
C1_JobIdIsIndex ==
    pc = "prepared" => \A i \in 1..Len(jobs) : jobs[i].id = i - 1

\* the ids of the marker comments of a string
MarkerIds(h) ==
    {id \in 0..(MaxNodes + 1) : \E n \in 1..Len(h) : h[n] = Marker(id)}

\* the comments of a document
RECURSIVE CommentsOf(_)
CommentsOf(nodes) ==
    IF nodes = <<>> THEN {}
    ELSE (IF Head(nodes).k = "comment" THEN {Head(nodes).text} ELSE {})
            \cup CommentsOf(Head(nodes).kids) \cup CommentsOf(Tail(nodes))

\* C2: every marker id of PreparedOffice.html identifies exactly one job.
\* (A comment the input itself spells like a marker is not a placeholder and
\* is left out.)
C2_MarkerIdentifiesOneJob ==
    pc = "prepared" =>
        \A id \in MarkerIds(html) :
            MarkerText(id) \notin CommentsOf(dom) =>
                Cardinality({i \in 1..Len(jobs) : jobs[i].id = id}) = 1

AllConverted == \A i \in 1..Len(out_mathml) : out_mathml[i] # <<>>

\* C3: when every extracted job converts, the output of
\* html_to_office_with_mathml holds no residual placeholder marker: no
\* marker of any job is left, and a COF_TEX_ comment of the output can only
\* be a comment that the input itself contained (it is not a placeholder,
\* and comments are passed through).
C3_NoResidualJobMarker ==
    (pc = "done" /\ AllConverted) =>
        /\ \A i \in 1..Len(jobs) : ~ContainsMarker(ret.html, jobs[i].id)
        /\ \A n \in 1..Len(ret.html) :
            (ret.html[n].t = "comment" /\ ret.html[n].text # <<>>
                /\ ret.html[n].text[1] = "COF_TEX_") =>
                    ret.html[n].text \in CommentsOf(dom)

\* <p><span data-math="b"></span>$x$</p>: both passes produce a job and both
\* convert.  (Both spans carry marker 0, so both get the first result and
\* index 1 is reported missing.)
C3_Witness ==
    /\ pc = "done"
    /\ dom = <<Elem("p", <<>>, <<Elem("span", <<Attr("data-math", <<"b">>)>>, <<>>),
                                TextNode(<<"$", "x", "$">>)>>)>>
    /\ Len(jobs) = 2
    /\ AllConverted
    /\ ret = [ok |-> TRUE,
              html |-> <<TagOpen("p", <<>>), MathmlTok(<<"b">>, FALSE),
                         TagOpen("span", ClassAttr("cof-math-inline")),
                         MathmlTok(<<"b">>, FALSE), TagClose("span"), TagClose("p"),
                         WarnComment(<<1>>)>>]

\* C6: a failed conversion leaves the call Ok and its job's marker replaced
\* by the empty string, also when the only job fails; the results of the
\* other jobs, where their marker is in the prepared html, are in the output.
C6_FailedJobMarkerRemoved ==
    pc = "done" =>
        /\ ret.ok
        /\ \A i \in 1..Len(jobs) :
                out_mathml[i] = <<>> => ~ContainsMarker(ret.html, jobs[i].id)
        /\ \A i \in 1..Len(jobs) :
                (out_mathml[i] # <<>> /\ ContainsMarker(html, jobs[i].id)) =>
                    \E n \in 1..Len(ret.html) : ret.html[n] = out_mathml[i][1]

----------------------------------------------------------------------------
(* Claims about the placeholders of the PreparedOffice. *)

\* html[n] is a start tag <span class="cof-math-inline"> or
\* <span class="cof-math-block">
IsMathSpanOpen(h, n) ==
    /\ n \in 1..Len(h)
    /\ h[n].t = "open"
    /\ h[n].tag = "span"
    /\ h[n].attrs \in {ClassAttr("cof-math-inline"), ClassAttr("cof-math-block")}

\* the positions of the placeholder markers of a string: the marker comments
\* that the input did not itself contain
PlaceholderPositions(h) ==
    {n \in 1..Len(h) : /\ h[n].t = "comment"
                       /\ h[n].text # <<>>
                       /\ h[n].text[1] = "COF_TEX_"
                       /\ h[n].text \notin CommentsOf(dom)}

\* C18: in PreparedOffice.html every placeholder marker comment, whether the
\* data-math pass or the text pass created it, is directly wrapped in a span
\* of class cof-math-inline or cof-math-block.
C18_MarkerIsWrappedInSpan ==
    pc = "prepared" =>
        \A n \in PlaceholderPositions(html) :
            /\ IsMathSpanOpen(html, n - 1)
            /\ n + 1 <= Len(html)
            /\ html[n + 1] = TagClose("span")

----------------------------------------------------------------------------
(* Claims about the data-math pass. *)

\* the elements the data-math pass extracts, in document order: those with a
\* data-math attribute outside math and outside content-only elements; what
\* an extracted element holds is not walked
RECURSIVE ExtractedElems(_, _)
ExtractedElems(nodes, in_math) ==
    IF nodes = <<>> THEN <<>>
    ELSE LET n == Head(nodes)
             now_in_math == in_math \/ (n.k = "elem" /\ n.tag = "math")
             own == IF n.k # "elem" \/ n.tag \in ContentOnly THEN <<>>
                    ELSE IF ~now_in_math /\ AttrGet(n.attrs, "data-math") # <<>> THEN <<n>>
                    ELSE ExtractedElems(n.kids, now_in_math)
         IN  own \o ExtractedElems(Tail(nodes), in_math)

\* the class attribute contains `word`, whatever the case of its letters
ClassNames(n, word) ==
    /\ AttrGet(n.attrs, "class") # <<>>
    /\ \E k \in 1..Len(AttrGet(n.attrs, "class")[1]) :
            AsciiLower(AttrGet(n.attrs, "class")[1][k]) = word

\* C19: the job of every element the data-math pass extracts has display =
\* TRUE exactly when the element's tag is one of div, p, li, section,
\* article, td, th or its class contains math-block or katex-display
\* (case-insensitive).
C19_DisplayOfDataMathJob ==
    pc = "sanitize_html" =>
        LET elems == ExtractedElems(dom, FALSE) IN
        /\ Len(jobs) = Len(elems)
        /\ \A i \in 1..Len(elems) :
            jobs[i].display =
                (\/ elems[i].tag \in {"div", "p", "li", "section", "article", "td", "th"}
                 \/ ClassNames(elems[i], "math-block")
                 \/ ClassNames(elems[i], "katex-display"))

\* <div data-math="a"></div><span class="Math-Block" data-math="b"></span>
\* <span class="note" data-math="b"></span>: display by the tag, display by
\* the class in capitals, and inline
C19_Witness ==
    /\ pc = "sanitize_html"
    /\ dom = <<Elem("div", <<Attr("data-math", <<"a">>)>>, <<>>),
               Elem("span", ClassAttr("Math-Block") \o <<Attr("data-math", <<"b">>)>>, <<>>),
               Elem("span", ClassAttr("note") \o <<Attr("data-math", <<"b">>)>>, <<>>)>>
    /\ jobs = <<TexJob(0, <<"a">>, TRUE), TexJob(1, <<"b">>, TRUE), TexJob(2, <<"b">>, FALSE)>>

----------------------------------------------------------------------------
(* The text scan over the four delimiter pairs. *)

\* what a text node is made of here: the delimiters and a letter
DelimPieces ==
    {<<"$">>, <<"$", "$">>, <<"\\", "[">>, <<"\\", "]">>, <<"\\", "(">>, <<"\\", ")">>, <<"x">>}

InitDelims ==
    /\ pc = "text"
    /\ text \in {Concat(ps) : ps \in Strings(DelimPieces, MaxPieces)}
    /\ dom = <<>>
    /\ html = <<>>
    /\ jobs = <<>>
    /\ spans = <<>>
    /\ out_mathml = <<>>
    /\ joined = <<>>
    /\ ret = NoRet
    /\ DocxIdle

SpecDelims == InitDelims /\ [][NextText]_vars

\* the span [a, b) of the text opens with `open`, closes with `close`, and
\* `close` does not occur between the two
FirstPair(a, b, open, close) ==
    /\ b - a >= Len(open) + Len(close)
    /\ StartsWithAt(text, a, open)
    /\ StartsWithAt(text, b - Len(close), close)
    /\ \A q \in (a + Len(open))..(b - Len(close) - 1) : ~StartsWithAt(text, q, close)

\* the span [a, b) is a single "$" (not the first of "$$") up to the next
\* "$" that no backslash escapes
FirstDollarPair(a, b) ==
    /\ b - a >= 2
    /\ text[a + 1] = "$"
    /\ ~StartsWithAt(text, a, <<"$", "$">>)
    /\ text[b] = "$" /\ text[b - 1] # "\\"
    /\ \A q \in (a + 2)..(b - 1) : ~(text[q] = "$" /\ text[q - 1] # "\\")

\* C20: within one text node the spans the scan detects never overlap, the
\* jobs are appended in increasing order of the position of their opening
\* delimiter, every span runs from its opening delimiter to the first
\* closing one, and a job has display = TRUE exactly when its span is
\* delimited by $$...$$ or \[...\] (FALSE for \(...\) and single $...$).
C20_SpansInOrderAndDisplayByDelimiter ==
    pc = "scanned" =>
        /\ Len(jobs) = Len(spans)
        /\ \A k \in 1..Len(spans) :
            /\ 0 <= spans[k][1] /\ spans[k][1] < spans[k][2] /\ spans[k][2] <= Len(text)
            /\ jobs[k].id = k - 1
            /\ k < Len(spans) => spans[k][2] <= spans[k + 1][1]
            /\ LET a == spans[k][1]
                   b == spans[k][2]
               IN  \/ jobs[k].display /\ FirstPair(a, b, <<"$", "$">>, <<"$", "$">>)
                   \/ jobs[k].display /\ FirstPair(a, b, <<"\\", "[">>, <<"\\", "]">>)
                   \/ ~jobs[k].display /\ FirstPair(a, b, <<"\\", "(">>, <<"\\", ")">>)
                   \/ ~jobs[k].display /\ FirstDollarPair(a, b)

\* "$x$$x$": the first "$" pairs with the next one, so the "$$" in the
\* middle is no display delimiter; two inline jobs, the one span ending where
\* the other begins
C20_Witness ==
    /\ pc = "scanned"
    /\ text = <<"$", "x", "$", "$", "x", "$">>
    /\ spans = <<<<0, 3>>, <<3, 6>>>>
    /\ jobs = <<TexJob(0, <<"x">>, FALSE), TexJob(1, <<"x">>, FALSE)>>

\* "\[x\]$$": one display job for the bracket pair
C20_DisplayReached ==
    /\ pc = "scanned"
    /\ text = <<"\\", "[", "x", "\\", "]", "$", "$">>
    /\ jobs = <<TexJob(0, <<"x">>, TRUE)>>

----------------------------------------------------------------------------
(* docx_from_html (main.rs): OMML fragments.  A fragment is a sequence of  *)
(* lexemes; the two namespace URIs are cut where the one can overlap the   *)
(* other, the last letter of ".../2006/math" being the first of "http".    *)

\* str::replace: every non-overlapping match of `from`, left to right
RECURSIVE ReplaceAll(_, _, _)
ReplaceAll(s, from, to) ==
    IF Len(s) < Len(from) THEN s
    ELSE IF StartsWithAt(s, 0, from)
    THEN to \o ReplaceAll(Slice(s, Len(from), Len(s)), from, to)
    ELSE <<Head(s)>> \o ReplaceAll(Tail(s), from, to)

\* "http://schemas.microsoft.com/office/2004/12/omml"
LegacyNs == <<"h", "ttp://schemas.microsoft.com/office/2004/12/omml">>
\* "http://schemas.openxmlformats.org/officeDocument/2006/math"
OpenXmlNs == <<"http://schemas.openxmlformats.org/officeDocument/2006/mat", "h">>

normalize_omml_namespace(xml) == ReplaceAll(xml, LegacyNs, OpenXmlNs)

\* the `fixes` array: omathpara, omath, ssubsup, ssub, ssup
OmmlFixes ==
    <<[from |-> <<"omath", "para">>, to |-> <<"oMath", "Para">>],
      [from |-> <<"omath">>, to |-> <<"oMath">>],
      [from |-> <<"ssub", "sup">>, to |-> <<"sSub", "Sup">>],
      [from |-> <<"ssub">>, to |-> <<"sSub">>],
      [from |-> <<"ssup">>, to |-> <<"sSup">>]>>

normalize_omml_case(xml) ==
    LET RECURSIVE Fix(_, _)
        Fix(out, n) ==
            IF n > Len(OmmlFixes) THEN out
            ELSE Fix(ReplaceAll(ReplaceAll(out, <<"<m:">> \o OmmlFixes[n].from,
                                           <<"<m:">> \o OmmlFixes[n].to),
                                <<"</m:">> \o OmmlFixes[n].from,
                                <<"</m:">> \o OmmlFixes[n].to), n + 1)
    IN  Fix(xml, 1)

\* <<the fragment>>, or <<>> for None
comment_extract_ms_equation_omml(contents) ==
    LET start == FindFrom(contents, 0, <<"]>">>)
        rest == Slice(contents, start + 1, Len(contents))
        end == FindFrom(rest, 0, <<"<![endif]">>)
        xml == Trim(Slice(rest, 0, end))
    IN  IF ~(\E n \in 1..Len(contents) : AsciiLower(contents[n]) = "msequation") THEN <<>>
        ELSE IF start = -1 THEN <<>>
        ELSE IF end = -1 THEN <<>>
        ELSE IF ~(\E n \in 1..Len(xml) : xml[n] \in {"<m:", "</m:"}) THEN <<>>
        ELSE <<normalize_omml_namespace(normalize_omml_case(xml))>>

\* the lexemes of the fragments enumerated
OmmlLexemes ==
    {"<m:", "</m:", "omath", "para", "ssub", "sup", "ssup", "h",
     "ttp://schemas.microsoft.com/office/2004/12/omml"}

InitOmml ==
    /\ pc = "omml"
    /\ omml \in {<<x>> : x \in Strings(OmmlLexemes, MaxOmmlLen)}
    /\ dom = <<>>
    /\ text = <<>>
    /\ html = <<>>
    /\ jobs = <<>>
    /\ spans = <<>>
    /\ out_mathml = <<>>
    /\ joined = <<>>
    /\ ret = NoRet
    /\ blocks = <<>>
    /\ li_log = <<>>
    /\ link_to_rid = <<>>
    /\ doc_xml = <<>>
    /\ package = <<>>
    /\ exit_code = -1

\* main.rs:149 applied to the fragment last obtained
NormalizeOmml ==
    /\ pc = "omml"
    /\ Len(omml) < 3
    /\ omml' = Append(omml, normalize_omml_namespace(normalize_omml_case(omml[Len(omml)])))
    /\ UNCHANGED <<pc, dom, pipe_vars, blocks, li_log, link_to_rid, doc_xml, package, exit_code>>

NextOmml == NormalizeOmml

SpecOmml == InitOmml /\ [][NextOmml]_vars

----------------------------------------------------------------------------
(* docx_from_html (main.rs): the block model and its builder. *)

RunStyle(bold, italic, code) == [bold |-> bold, italic |-> italic, code |-> code]
PlainStyle == RunStyle(FALSE, FALSE, FALSE)

\* enum Segment; href is <<>> where the variant has none
SegText(s, style) == [k |-> "Text", text |-> s, style |-> style, href |-> <<>>]
SegLinkText(s, style, href) == [k |-> "LinkText", text |-> s, style |-> style, href |-> href]
SegBreak == [k |-> "Break", text |-> <<>>, style |-> PlainStyle, href |-> <<>>]
SegOmml(xml) == [k |-> "Omml", text |-> xml, style |-> PlainStyle, href |-> <<>>]

ListInfo(num_id, ilvl) == [num_id |-> num_id, ilvl |-> ilvl]

\* struct Paragraph; list is <<>> for None and <<ListInfo>> for Some
Paragraph(style, list, segments) == [style |-> style, list |-> list, segments |-> segments]
EmptyParagraph == Paragraph("Normal", <<>>, <<>>)

TableCell(paragraphs) == [paragraphs |-> paragraphs]
TableRow(cells) == [cells |-> cells]

\* enum Block
BlockParagraph(p) == [k |-> "Paragraph", p |-> p, rows |-> <<>>]
BlockTable(rows) == [k |-> "Table", p |-> EmptyParagraph, rows |-> rows]

\* BuildCtx::new()
NewBuildCtx ==
    [bold_depth |-> 0, italic_depth |-> 0, code_depth |-> 0, pre_depth |-> 0,
     link_stack |-> <<>>, list_stack |-> <<>>, li_list_stack |-> <<>>]

\* Option<&String>: <<>> or <<href>>
current_href(ctx) ==
    IF ctx.link_stack = <<>> THEN <<>> ELSE ctx.link_stack[Len(ctx.link_stack)]

\* Option<ListInfo>: <<>> or <<info>>
current_list(ctx) ==
    IF ctx.li_list_stack = <<>> THEN <<>> ELSE ctx.li_list_stack[Len(ctx.li_list_stack)]

saturating_sub(n, m) == IF n >= m THEN n - m ELSE 0

\* mutant: a paragraph with any segment counts as one with content
paragraph_has_segments(p) == p.segments # <<>>

\* main.rs:233-240
paragraph_has_content(p) ==
    \E n \in 1..Len(p.segments) :
        \/ p.segments[n].k \in {"Text", "LinkText"} /\ Trim(p.segments[n].text) # <<>>
        \/ p.segments[n].k \in {"Break", "Omml"}

\* the walk's mutable state is st = [blocks, current, ctx, li_log]
flush_paragraph(st) ==
    [st EXCEPT !.blocks = IF paragraph_has_content(st.current)
                          THEN Append(@, BlockParagraph(st.current)) ELSE @,
               !.current = EmptyParagraph]

start_paragraph(st, style, list) ==
    [flush_paragraph(st) EXCEPT !.current = Paragraph(style, list, <<>>)]

RECURSIVE CollapseFrom(_, _)
CollapseFrom(s, in_ws) ==
    IF s = <<>> THEN <<>>
    ELSE IF IsWhitespace(Head(s))
    THEN (IF in_ws THEN <<>> ELSE <<" ">>) \o CollapseFrom(Tail(s), TRUE)
    ELSE <<Head(s)>> \o CollapseFrom(Tail(s), FALSE)

collapse_ws(s) == CollapseFrom(s, FALSE)

\* text.split('\n')
RECURSIVE SplitLines(_)
SplitLines(s) ==
    LET nl == FindFrom(s, 0, <<"\n">>) IN
    IF nl = -1 THEN <<s>>
    ELSE <<Slice(s, 0, nl)>> \o SplitLines(Slice(s, nl + 1, Len(s)))

\* emit_text(current, ctx, raw): the paragraph `current` becomes
emit_text(current, ctx, raw) ==
    LET t0 == TrimStart(raw)
        preserve_space == ctx.pre_depth > 0
        unix == ReplaceAll(ReplaceAll(raw, <<"\r", "\n">>, <<"\n">>), <<"\r">>, <<"\n">>)
        collapsed == IF preserve_space THEN unix
                     ELSE collapse_ws(ReplaceAll(unix, <<"\n">>, <<" ">>))
        txt == IF ~preserve_space /\ current.segments = <<>> THEN TrimStart(collapsed)
               ELSE collapsed
        style == RunStyle(ctx.bold_depth > 0, ctx.italic_depth > 0,
                          ctx.code_depth > 0 \/ ctx.pre_depth > 0)
        push_text(s) == IF current_href(ctx) # <<>>
                        THEN <<SegLinkText(s, style, current_href(ctx)[1])>>
                        ELSE <<SegText(s, style)>>
        lines == SplitLines(txt)
        line_segs == Concat([n \in 1..Len(lines) |->
                        (IF n > 1 THEN <<SegBreak>> ELSE <<>>)
                        \o (IF lines[n] # <<>> THEN push_text(lines[n]) ELSE <<>>)])
    IN  IF raw = <<>> THEN current
        ELSE IF \/ StartsWithAt(t0, 0, <<"<", "!", "[", "i", "f">>)
                \/ StartsWithAt(t0, 0, <<"<", "!", "[", "e", "n", "d", "i", "f">>)
        THEN current
        ELSE IF preserve_space /\ (\E n \in 1..Len(txt) : txt[n] = "\n")
        THEN [current EXCEPT !.segments = @ \o line_segs]
        ELSE IF txt # <<>> THEN [current EXCEPT !.segments = @ \o push_text(txt)]
        ELSE current

\* find_children(node, name, out) of parse_table: node itself and every
\* descendant of that tag, in document order
RECURSIVE find_children(_, _), FindChildrenAll(_, _)
find_children(node, name) ==
    (IF node.k = "elem" /\ AsciiLower(node.tag) = name THEN <<node>> ELSE <<>>)
        \o FindChildrenAll(node.kids, name)

FindChildrenAll(nodes, name) ==
    IF nodes = <<>> THEN <<>>
    ELSE find_children(Head(nodes), name) \o FindChildrenAll(Tail(nodes), name)

\* mutant: every li is given level 0
li_list_info_flat(list_stack) ==
    ListInfo(IF list_stack = <<>> THEN 1 ELSE list_stack[Len(list_stack)], 0)

\* main.rs:423-425: the ListInfo an li pushes
li_list_info(list_stack) ==
    ListInfo(IF list_stack = <<>> THEN 1 ELSE list_stack[Len(list_stack)],
             saturating_sub(Len(list_stack), 1))

\* mutant: a cell keeps the paragraphs built, also when there is none
cell_paragraphs_as_built(cell_blocks) ==
    LET kept == SelectSeq(cell_blocks, LAMBDA b : b.k = "Paragraph")
    IN  [n \in 1..Len(kept) |-> kept[n].p]

\* main.rs:345-357: the paragraphs of a cell
cell_paragraphs(cell_blocks) ==
    LET kept == SelectSeq(cell_blocks, LAMBDA b : b.k = "Paragraph")
        paras == [n \in 1..Len(kept) |-> kept[n].p]
    IN  IF paras = <<>> THEN <<EmptyParagraph>> ELSE paras

\* the first match of walk() on an element: what its start does
OpenTag(tag, attrs, st) ==
    CASE tag = "h1" -> start_paragraph(st, "Heading1", current_list(st.ctx))
      [] tag \in {"h2", "h3"} -> start_paragraph(st, "Heading2", current_list(st.ctx))
      [] tag = "pre" ->
            LET deeper == [st EXCEPT !.ctx.pre_depth = @ + 1]
            IN  start_paragraph(deeper, "CodeBlock", current_list(deeper.ctx))
      [] tag \in {"p", "div", "user-query-content", "message-content"} ->
            start_paragraph(st, "Normal", current_list(st.ctx))
      [] tag = "br" -> [st EXCEPT !.current.segments = Append(@, SegBreak)]
      [] tag = "hr" -> flush_paragraph(st)
      [] tag = "ul" -> [st EXCEPT !.ctx.list_stack = Append(@, 1)]
      [] tag = "ol" -> [st EXCEPT !.ctx.list_stack = Append(@, 2)]
      [] tag = "li" ->
            LET pushed == [st EXCEPT !.ctx.li_list_stack =
                                Append(@, <<li_list_info(st.ctx.list_stack)>>)]
                started == start_paragraph(pushed, "Normal", current_list(pushed.ctx))
            IN  [started EXCEPT !.li_log = Append(@, started.current.list)]
      [] tag = "a" ->
            LET href == IF AttrGet(attrs, "href") = <<>> THEN <<>>
                        ELSE sanitize_href(AttrGet(attrs, "href")[1])
            IN  [st EXCEPT !.ctx.link_stack = Append(@, href)]
      [] tag = "code" -> [st EXCEPT !.ctx.code_depth = @ + 1]
      [] tag \in {"b", "strong"} -> [st EXCEPT !.ctx.bold_depth = @ + 1]
      [] tag \in {"i", "em"} -> [st EXCEPT !.ctx.italic_depth = @ + 1]
      [] OTHER -> st

\* the second match of walk() on an element: what its end does
CloseTag(tag, st) ==
    CASE tag \in {"h1", "h2", "h3", "p", "div", "user-query-content", "message-content"} ->
            flush_paragraph(st)
      [] tag = "pre" ->
            [flush_paragraph(st) EXCEPT !.ctx.pre_depth = saturating_sub(@, 1)]
      [] tag \in {"ul", "ol"} ->
            [st EXCEPT !.ctx.list_stack = SubSeq(@, 1, saturating_sub(Len(@), 1))]
      [] tag = "li" ->
            [flush_paragraph(st) EXCEPT !.ctx.li_list_stack =
                                            SubSeq(@, 1, saturating_sub(Len(@), 1))]
      [] tag = "a" ->
            [st EXCEPT !.ctx.link_stack = SubSeq(@, 1, saturating_sub(Len(@), 1))]
      [] tag = "code" -> [st EXCEPT !.ctx.code_depth = saturating_sub(@, 1)]
      [] tag \in {"b", "strong"} -> [st EXCEPT !.ctx.bold_depth = saturating_sub(@, 1)]
      [] tag \in {"i", "em"} -> [st EXCEPT !.ctx.italic_depth = saturating_sub(@, 1)]
      [] OTHER -> st

\* build_blocks_from_nodes(nodes, allow_tables) returns the walk's final
\* state, of which .blocks is the Vec<Block>; `log` is the ghost log so far.
\* parse_table(node) returns [rows, li_log].
RECURSIVE BuildWalk(_, _, _), BuildWalkAll(_, _, _), ParseCells(_, _), ParseRows(_, _),
          build_blocks_from_nodes(_, _, _)
ParseCells(kids, acc) ==
    IF kids = <<>> THEN acc
    ELSE LET c == Head(kids) IN
         IF c.k = "elem" /\ AsciiLower(c.tag) \in {"td", "th"}
         THEN LET built == build_blocks_from_nodes(c.kids, FALSE, acc.li_log)
              IN  ParseCells(Tail(kids),
                     [cells |-> Append(acc.cells, TableCell(cell_paragraphs(built.blocks))),
                      li_log |-> built.li_log])
         ELSE ParseCells(Tail(kids), acc)

ParseRows(trs, acc) ==
    IF trs = <<>> THEN acc
    ELSE LET row == ParseCells(Head(trs).kids, [cells |-> <<>>, li_log |-> acc.li_log])
         IN  ParseRows(Tail(trs),
                [rows |-> IF row.cells # <<>> THEN Append(acc.rows, TableRow(row.cells))
                          ELSE acc.rows,
                 li_log |-> row.li_log])

parse_table(node, log) ==
    ParseRows(find_children(node, "tr"), [rows |-> <<>>, li_log |-> log])

BuildWalk(node, allow_tables, st) ==
    CASE node.k = "text" -> [st EXCEPT !.current = emit_text(st.current, st.ctx, node.text)]
      [] node.k = "comment" ->
            LET found == comment_extract_ms_equation_omml(node.text)
            IN  IF found # <<>>
                THEN [st EXCEPT !.current.segments = Append(@, SegOmml(found[1]))]
                ELSE st
      [] OTHER ->
            LET tag == AsciiLower(node.tag) IN
            IF allow_tables /\ tag = "table"
            THEN LET flushed == flush_paragraph(st)
                     table == parse_table(node, st.li_log)
                 IN  [flushed EXCEPT !.blocks = Append(@, BlockTable(table.rows)),
                                     !.li_log = table.li_log]
            ELSE IF tag \in {"math", "annotation"} THEN st
            ELSE CloseTag(tag, BuildWalkAll(node.kids, allow_tables,
                                            OpenTag(tag, node.attrs, st)))

BuildWalkAll(nodes, allow_tables, st) ==
    IF nodes = <<>> THEN st
    ELSE BuildWalkAll(Tail(nodes), allow_tables, BuildWalk(Head(nodes), allow_tables, st))

build_blocks_from_nodes(nodes, allow_tables, log) ==
    flush_paragraph(BuildWalkAll(nodes, allow_tables,
        [blocks |-> <<>>, current |-> EmptyParagraph, ctx |-> NewBuildCtx, li_log |-> log]))

----------------------------------------------------------------------------
(* docx_from_html (main.rs): rendering.  The XML written is a sequence of  *)
(* pieces: a start or end tag, or a whole run with its properties and its  *)
(* escaped text.                                                           *)

xml_escape_text(s) ==
    Concat([n \in 1..Len(s) |->
        CASE s[n] = "\"" -> <<"&", "q", "u", "o", "t", ";">>
          [] s[n] = "'" -> <<"&", "a", "p", "o", "s", ";">>
          [] OTHER -> EscChar(s[n])])

XmlPiece(t, s, style, val) == [t |-> t, text |-> s, style |-> style, val |-> val]
XmlTag(t) == XmlPiece(t, <<>>, PlainStyle, <<>>)

\* <w:r><w:rPr>...</w:rPr><w:t>text</w:t></w:r>, the rPr written always
hyperlink_run_xml(s, style) ==
    IF s = <<>> THEN <<>> ELSE <<XmlPiece("w:r+rPr", xml_escape_text(s), style, <<>>)>>

\* <w:r>[<w:rPr>...</w:rPr>]<w:t>text</w:t></w:r>, the rPr written for a style
run_xml(s, style) ==
    IF s = <<>> THEN <<>>
    ELSE IF style.bold \/ style.italic \/ style.code
    THEN <<XmlPiece("w:r+rPr", xml_escape_text(s), style, <<>>)>>
    ELSE <<XmlPiece("w:r", xml_escape_text(s), style, <<>>)>>

\* BTreeMap::get on the map kept as a sequence of [href, rid]: <<rid>> or <<>>
RidOf(map, href) ==
    LET hits == SelectSeq(map, LAMBDA e : e.href = href)
    IN  IF hits = <<>> THEN <<>> ELSE <<hits[1].rid>>

\* the closure flush_link of paragraph_xml on st = [out, in_link]; in_link is
\* <<>> or <<[buf, style, href]>>
flush_link(st, map) ==
    IF st.in_link = <<>> THEN st
    ELSE LET cur == st.in_link[1]
             rid == RidOf(map, cur.href)
         IN  IF cur.buf = <<>> THEN [st EXCEPT !.in_link = <<>>]
             ELSE IF rid # <<>>
             THEN [out |-> st.out \o <<XmlPiece("w:hyperlink", <<>>, PlainStyle, rid[1])>>
                                  \o hyperlink_run_xml(cur.buf, cur.style)
                                  \o <<XmlTag("/w:hyperlink")>>,
                   in_link |-> <<>>]
             ELSE [out |-> st.out \o run_xml(cur.buf, cur.style), in_link |-> <<>>]

\* mutant: the guard of the LinkText arm compares the href only
continues_link_by_href(in_link, seg) ==
    in_link # <<>> /\ in_link[1].href = seg.href

\* main.rs:613-614: the guard of the LinkText arm
continues_link(in_link, seg) ==
    in_link # <<>> /\ in_link[1].href = seg.href /\ in_link[1].style = seg.style

\* the body of `for seg in &p.segments`
RenderSegment(st, seg, map) ==
    CASE seg.k = "Break" ->
            [flush_link(st, map) EXCEPT !.out = Append(@, XmlTag("w:br"))]
      [] seg.k = "Omml" ->
            [flush_link(st, map) EXCEPT !.out = Append(@, XmlPiece("omml", seg.text, PlainStyle, <<>>))]
      [] seg.k = "Text" ->
            [flush_link(st, map) EXCEPT !.out = @ \o run_xml(seg.text, seg.style)]
      [] OTHER ->
            IF continues_link(st.in_link, seg)
            THEN [st EXCEPT !.in_link[1].buf = @ \o seg.text]
            ELSE [flush_link(st, map) EXCEPT
                    !.in_link = <<[buf |-> seg.text, style |-> seg.style, href |-> seg.href]>>]

RECURSIVE RenderSegments(_, _, _)
RenderSegments(st, segs, map) ==
    IF segs = <<>> THEN st
    ELSE RenderSegments(RenderSegment(st, Head(segs), map), Tail(segs), map)

\* the <w:pPr> of a paragraph: the style reference, then the numPr
ParagraphProperties(p) ==
    IF p.style # "Normal" \/ p.list # <<>>
    THEN <<XmlPiece("w:pPr", <<>>, PlainStyle,
                    <<p.style>> \o (IF p.list = <<>> THEN <<>>
                                    ELSE <<"ilvl", ToString(p.list[1].ilvl),
                                           "numId", ToString(p.list[1].num_id)>>))>>
    ELSE <<>>

paragraph_xml(p, map) ==
    <<XmlTag("w:p")>>
        \o flush_link(RenderSegments([out |-> ParagraphProperties(p), in_link |-> <<>>],
                                     p.segments, map), map).out
        \o <<XmlTag("/w:p")>>

table_xml(t, map) ==
    <<XmlTag("w:tbl")>>
        \o Concat([r \in 1..Len(t.rows) |->
                <<XmlTag("w:tr")>>
                \o Concat([c \in 1..Len(t.rows[r].cells) |->
                        <<XmlTag("w:tc")>>
                        \o Concat([n \in 1..Len(t.rows[r].cells[c].paragraphs) |->
                                    paragraph_xml(t.rows[r].cells[c].paragraphs[n], map)])
                        \o <<XmlTag("/w:tc")>>])
                \o <<XmlTag("/w:tr")>>])
        \o <<XmlTag("/w:tbl")>>

\* the {body} of document_xml
document_xml(bs, map) ==
    Concat([n \in 1..Len(bs) |->
        IF bs[n].k = "Paragraph" THEN paragraph_xml(bs[n].p, map) ELSE table_xml(bs[n], map)])

----------------------------------------------------------------------------
(* paragraph_xml on its own: any paragraph of at most MaxSegments segments *)
(* and any map of its hrefs to relationship ids.                           *)

HrefX == <<"https://x">>
HrefY == <<"https://y">>
BoldStyle == RunStyle(TRUE, FALSE, FALSE)

\* the segments a paragraph is made of
SegPalette ==
    {SegLinkText(<<"a">>, PlainStyle, HrefX), SegLinkText(<<"b">>, PlainStyle, HrefX),
     SegLinkText(<<"a">>, BoldStyle, HrefX), SegLinkText(<<"a">>, PlainStyle, HrefY),
     SegText(<<"t">>, PlainStyle), SegBreak, SegOmml(<<"<m:", "oMath", ">">>)}

\* relationship ids as main assigns them, for all, some or none of the hrefs
RidMaps ==
    {<<>>, <<[href |-> HrefX, rid |-> <<"rId", "10">>]>>,
     <<[href |-> HrefX, rid |-> <<"rId", "10">>], [href |-> HrefY, rid |-> <<"rId", "11">>]>>}

InitParagraph ==
    /\ pc = "render"
    /\ blocks \in {<<BlockParagraph(Paragraph("Normal", <<>>, segs))>> :
                        segs \in Strings(SegPalette, MaxSegments)}
    /\ link_to_rid \in RidMaps
    /\ dom = <<>>
    /\ text = <<>>
    /\ html = <<>>
    /\ jobs = <<>>
    /\ spans = <<>>
    /\ out_mathml = <<>>
    /\ joined = <<>>
    /\ ret = NoRet
    /\ omml = <<>>
    /\ li_log = <<>>
    /\ doc_xml = <<>>
    /\ package = <<>>
    /\ exit_code = -1

\* a call of paragraph_xml(p, link_to_rid)
RenderParagraph ==
    /\ pc = "render"
    /\ doc_xml' = paragraph_xml(blocks[1].p, link_to_rid)
    /\ pc' = "rendered"
    /\ UNCHANGED <<dom, pipe_vars, omml, blocks, li_log, link_to_rid, package, exit_code>>

NextParagraph == RenderParagraph

SpecParagraph == InitParagraph /\ [][NextParagraph]_vars

\* segment n opens a maximal run: it is the first segment, or it or the
\* segment before it is no LinkText, or their (href, style) differ
OpensRun(segs, n) ==
    \/ n = 1
    \/ segs[n].k # "LinkText"
    \/ segs[n - 1].k # "LinkText"
    \/ segs[n].href # segs[n - 1].href
    \/ segs[n].style # segs[n - 1].style

\* the last segment of the maximal run that segment n opens
RunLast(segs, n) ==
    CHOOSE m \in n..Len(segs) :
        /\ \A q \in (n + 1)..m : ~OpensRun(segs, q)
        /\ m = Len(segs) \/ OpensRun(segs, m + 1)

\* what the maximal run opened by segment n is to be written as
RunPieces(segs, n, map) ==
    LET seg == segs[n]
        whole == Concat([q \in 1..(RunLast(segs, n) - n + 1) |-> segs[n + q - 1].text])
        run == XmlPiece(IF seg.style = PlainStyle THEN "w:r" ELSE "w:r+rPr",
                        xml_escape_text(whole), seg.style, <<>>)
    IN  CASE seg.k = "Break" -> <<XmlTag("w:br")>>
          [] seg.k = "Omml" -> <<XmlPiece("omml", seg.text, PlainStyle, <<>>)>>
          [] seg.k = "Text" -> <<run>>
          [] OTHER ->
                IF \E e \in 1..Len(map) : map[e].href = seg.href
                THEN <<XmlPiece("w:hyperlink", <<>>, PlainStyle,
                                map[CHOOSE e \in 1..Len(map) : map[e].href = seg.href].rid),
                       XmlPiece("w:r+rPr", xml_escape_text(whole), seg.style, <<>>),
                       XmlTag("/w:hyperlink")>>
                ELSE <<run>>

\* C14: paragraph_xml writes every maximal run of consecutive LinkText
\* segments of one (href, style) as one hyperlink element (one plain run
\* when the href has no relationship id) whose text is the run's texts in
\* order, and every other segment as its own piece, all in segment order:
\* nothing buffered is lost or written twice.
C14_LinkRunsAreCoalesced ==
    pc = "rendered" =>
        LET segs == blocks[1].p.segments IN
        doc_xml = <<XmlTag("w:p")>>
                    \o Concat([n \in 1..Len(segs) |->
                            IF OpensRun(segs, n) THEN RunPieces(segs, n, link_to_rid)
                            ELSE <<>>])
                    \o <<XmlTag("/w:p")>>

\* two LinkText segments of one href and style, then a Text segment, then a
\* LinkText of an href without relationship id: one hyperlink "ab", the run
\* "t", and a plain run "a"
C14_Witness ==
    /\ pc = "rendered"
    /\ blocks[1].p.segments = <<SegLinkText(<<"a">>, PlainStyle, HrefX),
                                SegLinkText(<<"b">>, PlainStyle, HrefX),
                                SegText(<<"t">>, PlainStyle),
                                SegLinkText(<<"a">>, PlainStyle, HrefY)>>
    /\ link_to_rid = <<[href |-> HrefX, rid |-> <<"rId", "10">>]>>
    /\ doc_xml = <<XmlTag("w:p"),
                   XmlPiece("w:hyperlink", <<>>, PlainStyle, <<"rId", "10">>),
                   XmlPiece("w:r+rPr", <<"a", "b">>, PlainStyle, <<>>),
                   XmlTag("/w:hyperlink"),
                   XmlPiece("w:r", <<"t">>, PlainStyle, <<>>),
                   XmlPiece("w:r", <<"a">>, PlainStyle, <<>>),
                   XmlTag("/w:p")>>

----------------------------------------------------------------------------
(* docx_from_html (main.rs): main, one step per call it makes. *)

\* the parser's table: the rows of a table without tbody are put in one
RECURSIVE InsertTbody(_)
InsertTbody(nodes) ==
    [n \in 1..Len(nodes) |->
        IF nodes[n].k # "elem" THEN nodes[n]
        ELSE IF nodes[n].tag = "table" /\ nodes[n].kids # <<>>
        THEN [nodes[n] EXCEPT !.kids = <<Elem("tbody", <<>>, InsertTbody(nodes[n].kids))>>]
        ELSE [nodes[n] EXCEPT !.kids = InsertTbody(@)]]

\* html.trim().is_empty(), html being the input whose body children are `nodes`
IsBlankHtml(nodes) ==
    \A n \in 1..Len(nodes) : nodes[n].k = "text" /\ Trim(nodes[n].text) = <<>>

\* the paragraphs of the blocks, those of the table cells included
ParagraphsOf(bs) ==
    Concat([n \in 1..Len(bs) |->
        IF bs[n].k = "Paragraph" THEN <<bs[n].p>>
        ELSE Concat([r \in 1..Len(bs[n].rows) |->
                Concat([c \in 1..Len(bs[n].rows[r].cells) |->
                    bs[n].rows[r].cells[c].paragraphs])])])

\* the place of a lexeme of an href in the byte order of str: the lexemes
\* differ from one another in a byte that both have
ByteRank(w) ==
    CASE w = "&" -> 1
      [] w = "https://x" -> 2
      [] w = "https://y" -> 3
      [] OTHER -> 4

\* str's Ord on the hrefs of the documents: lexicographic
HrefBefore(a, b) ==
    \E n \in 1..Len(b) :
        /\ n <= Len(a) + 1
        /\ \A m \in 1..(n - 1) : a[m] = b[m]
        /\ (n = Len(a) + 1 \/ ByteRank(a[n]) < ByteRank(b[n]))

\* BTreeSet<String> as the sequence its iteration gives
RECURSIVE SortedHrefs(_)
SortedHrefs(hs) ==
    IF hs = {} THEN <<>>
    ELSE LET least == CHOOSE h \in hs : \A o \in hs : ~HrefBefore(o, h)
         IN  <<least>> \o SortedHrefs(hs \ {least})

\* mutant: the hrefs of the top-level paragraphs only
gather_hrefs_top_level(bs) ==
    LET paras == Concat([n \in 1..Len(bs) |-> IF bs[n].k = "Paragraph" THEN <<bs[n].p>> ELSE <<>>])
        segs == Concat([q \in 1..Len(paras) |-> paras[q].segments])
    IN  SortedHrefs({segs[n].href : n \in {m \in 1..Len(segs) : segs[m].k = "LinkText"}})

\* main.rs:843-870
gather_hrefs(bs) ==
    LET paras == ParagraphsOf(bs)
        segs == Concat([q \in 1..Len(paras) |-> paras[q].segments])
    IN  SortedHrefs({segs[n].href : n \in {m \in 1..Len(segs) : segs[m].k = "LinkText"}})

\* main.rs:946-951: rId10, rId11, ... in the order of the set
AssignRids(hrefs) ==
    [n \in 1..Len(hrefs) |-> [href |-> hrefs[n], rid |-> <<"rId", ToString(9 + n)>>]]

\* mutant: only the top-level paragraphs are looked at
blocks_need_numbering_top_level(bs) ==
    \E n \in 1..Len(bs) : bs[n].k = "Paragraph" /\ bs[n].p.list # <<>>

\* main.rs:872-894: some paragraph, top-level or in a table cell, has a list
blocks_need_numbering(bs) ==
    \E n \in 1..Len(bs) :
        \/ bs[n].k = "Paragraph" /\ bs[n].p.list # <<>>
        \/ /\ bs[n].k = "Table"
           /\ \E r \in 1..Len(bs[n].rows) : \E c \in 1..Len(bs[n].rows[r].cells) :
                \E q \in 1..Len(bs[n].rows[r].cells[c].paragraphs) :
                    bs[n].rows[r].cells[c].paragraphs[q].list # <<>>

\* the Override part names of [Content_Types].xml
content_types_xml(has_numbering) ==
    <<"/word/document.xml", "/word/styles.xml">>
        \o (IF has_numbering THEN <<"/word/numbering.xml">> ELSE <<>>)

\* main.rs:732-736: the Relationship of _rels/.rels
rels_xml == <<[Id |-> <<"rId", "1">>, Type |-> "officeDocument", Target |-> <<"word/document.xml">>]>>

\* main.rs:738-754: one hyperlink Relationship for each entry of the map, in
\* its order, and no other
document_rels_xml(map) ==
    [n \in 1..Len(map) |->
        [Id |-> map[n].rid, Type |-> "hyperlink", Target |-> xml_escape_text(map[n].href)]]

\* the zip archive write_docx finishes: the names of its parts in the order
\* written, and the contents of those that are not fixed strings
write_docx(document, doc_rels, has_numbering) ==
    [parts |-> <<"[Content_Types].xml", "_rels/.rels", "word/document.xml",
                 "word/styles.xml">>
               \o (IF has_numbering THEN <<"word/numbering.xml">> ELSE <<>>)
               \o <<"word/_rels/document.xml.rels">>,
     content_types |-> content_types_xml(has_numbering),
     document |-> document,
     document_rels |-> doc_rels]

InitDocx ==
    /\ pc = "read"
    /\ dom \in {InsertTbody(d) : d \in Documents("lists", MaxListNodes)
                                        \cup Documents("tables", MaxTableNodes)
                                        \cup Documents("blocks", MaxBlockNodes)
                                        \cup Documents("links", MaxLinkNodes)}
    /\ text = <<>>
    /\ html = <<>>
    /\ jobs = <<>>
    /\ spans = <<>>
    /\ out_mathml = <<>>
    /\ joined = <<>>
    /\ ret = NoRet
    /\ DocxIdle

\* main.rs:933-941
ReadHtml ==
    /\ pc = "read"
    /\ IF IsBlankHtml(dom)
       THEN pc' = "exit" /\ exit_code' = 1
       ELSE pc' = "build" /\ UNCHANGED exit_code
    /\ UNCHANGED <<dom, pipe_vars, omml, blocks, li_log, link_to_rid, doc_xml, package>>

\* main.rs:943: build_blocks_from_html, whose parse gives `dom`
BuildBlocks ==
    /\ pc = "build"
    /\ LET built == build_blocks_from_nodes(dom, TRUE, <<>>) IN
        /\ blocks' = built.blocks
        /\ li_log' = built.li_log
    /\ pc' = "rids"
    /\ UNCHANGED <<dom, pipe_vars, omml, link_to_rid, doc_xml, package, exit_code>>

\* main.rs:945-951
AssignRelationshipIds ==
    /\ pc = "rids"
    /\ link_to_rid' = AssignRids(gather_hrefs(blocks))
    /\ pc' = "render"
    /\ UNCHANGED <<dom, pipe_vars, omml, blocks, li_log, doc_xml, package, exit_code>>

\* main.rs:953
RenderDocument ==
    /\ pc = "render"
    /\ doc_xml' = document_xml(blocks, link_to_rid)
    /\ pc' = "write"
    /\ UNCHANGED <<dom, pipe_vars, omml, blocks, li_log, link_to_rid, package, exit_code>>

\* main.rs:954-958: write_docx fails where the file cannot be created
WriteDocx ==
    /\ pc = "write"
    /\ \/ /\ package' = write_docx(doc_xml, document_rels_xml(link_to_rid),
                                   blocks_need_numbering(blocks))
          /\ exit_code' = 0
       \/ /\ package' = <<>>
          /\ exit_code' = 1
    /\ pc' = "exit"
    /\ UNCHANGED <<dom, pipe_vars, omml, blocks, li_log, link_to_rid, doc_xml>>

NextDocx ==
    \/ ReadHtml
    \/ BuildBlocks
    \/ AssignRelationshipIds
    \/ RenderDocument
    \/ WriteDocx

SpecDocx == InitDocx /\ [][NextDocx]_vars

----------------------------------------------------------------------------
(* Claims about the block-model builder. *)

\* the ListInfo of an li whose enclosing lists, outermost first, are `lists`
InfoFor(lists) ==
    IF lists = <<>> THEN ListInfo(1, 0)
    ELSE ListInfo(IF lists[Len(lists)] = "ul" THEN 1 ELSE 2, Len(lists) - 1)

\* for every li of the nodes, in document order, the ListInfo of its place:
\* `lists` are the ul/ol that enclose it inside the table cell it lies in
\* (a cell's content is built by a call of its own)
RECURSIVE ExpectedListInfos(_, _)
ExpectedListInfos(nodes, lists) ==
    IF nodes = <<>> THEN <<>>
    ELSE LET n == Head(nodes)
             own == CASE n.k # "elem" -> <<>>
                      [] n.tag \in {"math", "annotation"} -> <<>>
                      [] n.tag = "li" -> <<<<InfoFor(lists)>>>> \o ExpectedListInfos(n.kids, lists)
                      [] n.tag \in {"ul", "ol"} -> ExpectedListInfos(n.kids, Append(lists, n.tag))
                      [] n.tag \in {"td", "th"} -> ExpectedListInfos(n.kids, <<>>)
                      [] OTHER -> ExpectedListInfos(n.kids, lists)
         IN  own \o ExpectedListInfos(Tail(nodes), lists)

Built == pc \in {"rids", "render", "write"} \/ (pc = "exit" /\ ~IsBlankHtml(dom))

\* C11: the paragraph opened by every li carries the ListInfo with ilvl =
\* (number of ul/ol enclosing the li in the builder's call) - 1, 0 when
\* there is none, and numId of the nearest enclosing list (1 for ul, 2 for
\* ol, 1 when there is none); every list annotation of a paragraph of the
\* block model is one of these.
C11_LiParagraphCarriesListInfo ==
    Built =>
        /\ li_log = ExpectedListInfos(dom, <<>>)
        /\ \A n \in 1..Len(ParagraphsOf(blocks)) :
            ParagraphsOf(blocks)[n].list # <<>> =>
                \E m \in 1..Len(li_log) : li_log[m] = ParagraphsOf(blocks)[n].list

\* <ul><li>t<ol><li></li></ol></li></ul>: the outer li opens a paragraph of
\* numId 1, ilvl 0, which holds "t"; the inner li one of numId 2, ilvl 1
C11_Witness ==
    /\ pc = "rids"
    /\ dom = <<Elem("ul", <<>>, <<Elem("li", <<>>,
                <<TextNode(<<"t">>), Elem("ol", <<>>, <<Elem("li", <<>>, <<>>)>>)>>)>>)>>
    /\ li_log = <<<<ListInfo(1, 0)>>, <<ListInfo(2, 1)>>>>
    /\ blocks = <<BlockParagraph(Paragraph("Normal", <<ListInfo(1, 0)>>,
                                           <<SegText(<<"t">>, PlainStyle)>>))>>

\* the table elements the builder makes a Table block of, in document
\* order: those that lie in no other table
RECURSIVE HandledTables(_)
HandledTables(nodes) ==
    IF nodes = <<>> THEN <<>>
    ELSE LET n == Head(nodes)
             own == CASE n.k # "elem" -> <<>>
                      [] n.tag = "table" -> <<n>>
                      [] n.tag \in {"math", "annotation"} -> <<>>
                      [] OTHER -> HandledTables(n.kids)
         IN  own \o HandledTables(Tail(nodes))

TableBlocks == SelectSeq(blocks, LAMBDA b : b.k = "Table")

\* the tr elements of a table itself: its children, and those of its tbody,
\* thead and tfoot children
OwnRows(table) ==
    Concat([n \in 1..Len(table.kids) |->
        IF table.kids[n].k # "elem" THEN <<>>
        ELSE IF table.kids[n].tag = "tr" THEN <<table.kids[n]>>
        ELSE IF table.kids[n].tag \in {"tbody", "thead", "tfoot"}
        THEN SelectSeq(table.kids[n].kids, LAMBDA r : r.k = "elem" /\ r.tag = "tr")
        ELSE <<>>])

CellsOfRow(tr) == SelectSeq(tr.kids, LAMBDA c : c.k = "elem" /\ c.tag \in {"td", "th"})

\* C12: the Table block of every table the builder handles has exactly one
\* row per tr of that table, in document order, and each row exactly one
\* cell per td/th child of its tr, whatever the cells contain.
C12_OneRowPerTrOneCellPerTd ==
    Built =>
        /\ Len(TableBlocks) = Len(HandledTables(dom))
        /\ \A i \in 1..Len(TableBlocks) :
            LET trs == OwnRows(HandledTables(dom)[i]) IN
            /\ Len(TableBlocks[i].rows) = Len(trs)
            /\ \A r \in 1..Len(trs) :
                Len(TableBlocks[i].rows[r].cells) = Len(CellsOfRow(trs[r]))

\* some non-blank text lies in the nodes, outside math
RECURSIVE HasContent(_)
HasContent(nodes) ==
    \E n \in 1..Len(nodes) :
        \/ nodes[n].k = "text" /\ Trim(nodes[n].text) # <<>>
        \/ nodes[n].k = "elem" /\ nodes[n].tag \notin {"math", "annotation"}
            /\ HasContent(nodes[n].kids)

\* the cells of a Table block, and the td/th elements they are built from:
\* the cells of every tr found in the table, in document order
CellsOfBlock(b) == Concat([r \in 1..Len(b.rows) |-> b.rows[r].cells])
CellElems(table) ==
    LET trs == find_children(table, "tr")
    IN  Concat([r \in 1..Len(trs) |-> CellsOfRow(trs[r])])

\* C13: every TableCell of every Table block owns at least one paragraph; a
\* cell whose content yields no paragraph gets exactly one empty Normal
\* paragraph without list annotation.
C13_CellOwnsAParagraph ==
    Built =>
        \A i \in 1..Len(TableBlocks) :
            LET cells == CellsOfBlock(TableBlocks[i])
                elems == CellElems(HandledTables(dom)[i])
            IN  /\ Len(cells) = Len(elems)
                /\ \A c \in 1..Len(cells) :
                    /\ Len(cells[c].paragraphs) >= 1
                    /\ ~HasContent(elems[c].kids) =>
                            cells[c].paragraphs = <<Paragraph("Normal", <<>>, <<>>)>>
                    /\ HasContent(elems[c].kids) =>
                            \A q \in 1..Len(cells[c].paragraphs) :
                                cells[c].paragraphs[q].segments # <<>>

\* <table><tr><td></td><th>t</th></tr></table>: the empty cell owns the one
\* empty paragraph, the other cell the paragraph of its text
C13_Witness ==
    /\ pc = "rids"
    /\ dom = <<Elem("table", <<>>, <<Elem("tbody", <<>>, <<Elem("tr", <<>>,
                <<Elem("td", <<>>, <<>>), Elem("th", <<>>, <<TextNode(<<"t">>)>>)>>)>>)>>)>>
    /\ blocks = <<BlockTable(<<TableRow(
                    <<TableCell(<<Paragraph("Normal", <<>>, <<>>)>>),
                      TableCell(<<Paragraph("Normal", <<>>,
                                            <<SegText(<<"t">>, PlainStyle)>>)>>)>>)>>)>>

----------------------------------------------------------------------------
(* Claims about the package written. *)

\* the written document holds a paragraph with a <w:numPr>
DocumentHasListParagraph ==
    \E n \in 1..Len(package.document) :
        /\ package.document[n].t = "w:pPr"
        /\ \E q \in 1..Len(package.document[n].val) : package.document[n].val[q] = "numId"

\* C16: in every written package the part word/numbering.xml, its Override
\* in [Content_Types].xml and a paragraph with a list annotation (top-level
\* or inside a table cell) are all three there or all three absent.
C16_NumberingPartIffListParagraph ==
    package # <<>> =>
        LET part == \E n \in 1..Len(package.parts) : package.parts[n] = "word/numbering.xml"
            override == \E n \in 1..Len(package.content_types) :
                            package.content_types[n] = "/word/numbering.xml"
            listed == \E n \in 1..Len(ParagraphsOf(blocks)) : ParagraphsOf(blocks)[n].list # <<>>
        IN  /\ part = override
            /\ override = listed
            /\ listed = DocumentHasListParagraph

\* <table><tr><td><li>t</li></td></tr></table>: the only list paragraph lies
\* in a table cell, and the package has the numbering part and its Override
C16_Witness ==
    /\ pc = "exit"
    /\ dom = <<Elem("table", <<>>, <<Elem("tbody", <<>>, <<Elem("tr", <<>>,
                <<Elem("td", <<>>, <<Elem("li", <<>>, <<TextNode(<<"t">>)>>)>>)>>)>>)>>)>>
    /\ package # <<>>
    /\ package.parts = <<"[Content_Types].xml", "_rels/.rels", "word/document.xml",
                         "word/styles.xml", "word/numbering.xml",
                         "word/_rels/document.xml.rels">>
    /\ package.content_types = <<"/word/document.xml", "/word/styles.xml",
                                 "/word/numbering.xml">>

\* C17: a readable, non-empty input that yields no block ends with a
\* non-zero status and no package; a package is written, and the status is
\* zero, only when at least one block was built.
C17_NoBlocksIsAnError ==
    pc = "exit" =>
        /\ (~IsBlankHtml(dom) /\ blocks = <<>>) => (exit_code # 0 /\ package = <<>>)
        /\ package # <<>> => (exit_code = 0 /\ blocks # <<>>)

----------------------------------------------------------------------------
(* Claims about the paragraphs of the block model. *)

\* a segment that shows: text that is not blank, a break, an equation
Shows(seg) ==
    CASE seg.k \in {"Text", "LinkText"} -> \E n \in 1..Len(seg.text) : ~IsWhitespace(seg.text[n])
      [] OTHER -> TRUE

\* the number of elements of a tag among the nodes and their descendants
RECURSIVE CountTag(_, _)
CountTag(nodes, tag) ==
    IF nodes = <<>> THEN 0
    ELSE (IF Head(nodes).k = "elem" /\ Head(nodes).tag = tag THEN 1 ELSE 0)
         + CountTag(Head(nodes).kids, tag) + CountTag(Tail(nodes), tag)

TopParagraphs == SelectSeq(blocks, LAMBDA b : b.k = "Paragraph")

\* C21: every Paragraph that is a top-level Block has a segment that shows
\* (text that is not all white space, a Break or an Omml): flush appends no
\* paragraph without one; and flush resets the current paragraph, so the
\* style of a heading does not outlive it: no more Heading1 paragraphs are
\* built than the input has h1 elements.
C21_TopLevelParagraphsHaveContent ==
    Built =>
        /\ \A n \in 1..Len(TopParagraphs) :
            \E q \in 1..Len(TopParagraphs[n].p.segments) : Shows(TopParagraphs[n].p.segments[q])
        /\ Cardinality({n \in 1..Len(TopParagraphs) : TopParagraphs[n].p.style = "Heading1"})
                <= CountTag(dom, "h1")

\* <pre> </pre>t: the paragraph of the pre element holds a Text segment of
\* one blank and is dropped, the text after it makes a Normal paragraph
C21_Witness ==
    /\ pc = "rids"
    /\ dom = <<Elem("pre", <<>>, <<TextNode(<<" ">>)>>), TextNode(<<"t">>)>>
    /\ blocks = <<BlockParagraph(Paragraph("Normal", <<>>, <<SegText(<<"t">>, PlainStyle)>>))>>

\* every text node, break and comment among the nodes lies inside an li of
\* the builder's call (a table cell starts a call of its own)
RECURSIVE AllContentInLi(_, _)
AllContentInLi(nodes, in_li) ==
    \A n \in 1..Len(nodes) :
        CASE nodes[n].k # "elem" -> in_li
          [] nodes[n].tag = "br" -> in_li
          [] nodes[n].tag = "li" -> AllContentInLi(nodes[n].kids, TRUE)
          [] nodes[n].tag \in {"td", "th"} -> AllContentInLi(nodes[n].kids, FALSE)
          [] OTHER -> AllContentInLi(nodes[n].kids, in_li)

\* C26: every paragraph built from content that lies inside an li carries
\* the ListInfo of an li: where all the content of the input lies inside li
\* elements, no paragraph with segments has the list annotation None, also
\* not the one of the text that follows a nested block inside the li.
C26_ContentOfLiKeepsListInfo ==
    (Built /\ AllContentInLi(dom, FALSE)) =>
        \A n \in 1..Len(ParagraphsOf(blocks)) :
            ParagraphsOf(blocks)[n].segments # <<>> =>
                /\ ParagraphsOf(blocks)[n].list # <<>>
                /\ \E m \in 1..Len(li_log) : li_log[m] = ParagraphsOf(blocks)[n].list

\* the number of text nodes among the nodes and their descendants
RECURSIVE CountText(_)
CountText(nodes) ==
    IF nodes = <<>> THEN 0
    ELSE (IF Head(nodes).k = "text" THEN 1 ELSE 0)
         + CountText(Head(nodes).kids) + CountText(Tail(nodes))

\* the Text and LinkText segments of the block model, table cells included
TextSegments ==
    SelectSeq(Concat([n \in 1..Len(ParagraphsOf(blocks)) |-> ParagraphsOf(blocks)[n].segments]),
              LAMBDA seg : seg.k \in {"Text", "LinkText"})

\* C27: every text node of the input contributes to at most one place of
\* the block model, so there are no more text segments than text nodes, and
\* the Table block of a table gets no row beyond those of the table's own tr
\* elements: the tr and td elements of a table nested in one of its cells
\* add nothing to it.
C27_NestedTableContentAppearsOnce ==
    Built =>
        /\ Len(TextSegments) <= CountText(dom)
        /\ \A i \in 1..Len(TableBlocks) :
            i <= Len(HandledTables(dom)) =>
                Len(TableBlocks[i].rows) <= Len(OwnRows(HandledTables(dom)[i]))

----------------------------------------------------------------------------
(* Claims about the relationships of the package. *)

\* the targets of the a elements that hold text, table cells included
RECURSIVE LinkTargets(_)
LinkTargets(nodes) ==
    UNION {IF nodes[n].k # "elem" THEN {}
           ELSE (IF nodes[n].tag = "a" /\ AttrGet(nodes[n].attrs, "href") # <<>>
                    /\ \E q \in 1..Len(nodes[n].kids) : nodes[n].kids[q].k = "text"
                 THEN {AttrGet(nodes[n].attrs, "href")[1]} ELSE {})
                \cup LinkTargets(nodes[n].kids) :
           n \in 1..Len(nodes)}

\* the r:id of the hyperlink elements of the written document.xml
HyperlinkIds ==
    {package.document[n].val : n \in {m \in 1..Len(package.document) :
                                        package.document[m].t = "w:hyperlink"}}

\* C24: the relationship ids are given to the distinct hyperlink targets of
\* the whole document (paragraphs and table cells), each target once, in
\* lexicographic order of the target, rId10, rId11, ... in sequence, none of
\* them the id of a fixed relationship; and every r:id of a hyperlink in
\* document.xml has exactly one Relationship of that id in
\* word/_rels/document.xml.rels.
C24_RelationshipIdsAreSequentialAndResolved ==
    (pc = "exit" /\ package # <<>>) =>
        /\ {link_to_rid[n].href : n \in 1..Len(link_to_rid)} = LinkTargets(dom)
        /\ \A i, j \in 1..Len(link_to_rid) :
            i < j => HrefBefore(link_to_rid[i].href, link_to_rid[j].href)
        /\ \A i \in 1..Len(link_to_rid) :
            /\ link_to_rid[i].rid = <<"rId", ToString(9 + i)>>
            /\ \A f \in 1..Len(rels_xml) : rels_xml[f].Id # link_to_rid[i].rid
        /\ \A id \in HyperlinkIds :
            Cardinality({n \in 1..Len(package.document_rels) :
                            package.document_rels[n].Id = id}) = 1

\* <a href="https://y">t</a><table><tr><td><a href="https://x">t</a></td></tr></table>:
\* the target of the cell comes first in the order and gets rId10, the one
\* of the body rId11, and each hyperlink written has its Relationship
C24_Witness ==
    /\ pc = "exit"
    /\ package # <<>>
    /\ link_to_rid = <<[href |-> <<"https://x">>, rid |-> <<"rId", "10">>],
                       [href |-> <<"https://y">>, rid |-> <<"rId", "11">>]>>
    /\ HyperlinkIds = {<<"rId", "10">>, <<"rId", "11">>}
    /\ Len(blocks) = 2
    /\ blocks[2].k = "Table"
    /\ package.document[2].t = "w:hyperlink"
    /\ package.document[2].val = <<"rId", "11">>

\* C30: every part that document.xml depends on is reached through a
\* relationship: word/_rels/document.xml.rels of a written package declares
\* a relationship that targets styles.xml and, where word/numbering.xml is
\* written, one that targets numbering.xml.
C30_PartsAreReachedThroughRelationships ==
    package # <<>> =>
        /\ \E n \in 1..Len(package.document_rels) :
                package.document_rels[n].Target = <<"styles.xml">>
        /\ (\E q \in 1..Len(package.parts) : package.parts[q] = "word/numbering.xml")
            => \E n \in 1..Len(package.document_rels) :
                    package.document_rels[n].Target = <<"numbering.xml">>

----------------------------------------------------------------------------
(* pipeline.rs: the Markdown text scan, and the two text scans on the same *)
(* text.                                                                   *)

\* the body shared by the "$$", "\[" and "\(" branches of
\* inject_markdown_math_placeholders; st = [out, jobs]
MarkdownSpan(st, s, i, end, display) ==
    [out |-> PushStr(st.out, placeholder_for(Len(st.jobs), display)),
     jobs |-> Append(st.jobs,
                TexJob(Len(st.jobs), normalize_latex(Trim(Slice(s, i + 2, end))), display))]

\* the `while i < bytes.len()` loop of inject_markdown_math_placeholders;
\* the backtick is written "U+0060"
RECURSIVE ScanMarkdown(_, _, _, _, _)
ScanMarkdown(s, i, in_fence, in_inline_code, st) ==
    IF i >= Len(s) THEN st
    ELSE
    LET e1 == PairEnd(s, i, <<"$", "$">>, <<"$", "$">>)
        e2 == PairEnd(s, i, <<"\\", "[">>, <<"\\", "]">>)
        e3 == PairEnd(s, i, <<"\\", "(">>, <<"\\", ")">>)
        pushed == [st EXCEPT !.out = PushText(@, Utf8Bytes(s[i + 1]))]
    IN
    IF StartsWithAt(s, i, <<"U+0060", "U+0060", "U+0060">>)
    THEN ScanMarkdown(s, i + 3, ~in_fence, in_inline_code,
                      [st EXCEPT !.out = PushText(@, <<"U+0060", "U+0060", "U+0060">>)])
    ELSE IF in_fence THEN ScanMarkdown(s, i + 1, in_fence, in_inline_code, pushed)
    ELSE IF s[i + 1] = "U+0060"
    THEN ScanMarkdown(s, i + 1, in_fence, ~in_inline_code, pushed)
    ELSE IF in_inline_code THEN ScanMarkdown(s, i + 1, in_fence, in_inline_code, pushed)
    ELSE IF e1 # -1
    THEN ScanMarkdown(s, e1 + 2, in_fence, in_inline_code, MarkdownSpan(st, s, i, e1, TRUE))
    ELSE IF e2 # -1
    THEN ScanMarkdown(s, e2 + 2, in_fence, in_inline_code, MarkdownSpan(st, s, i, e2, TRUE))
    ELSE IF e3 # -1
    THEN ScanMarkdown(s, e3 + 2, in_fence, in_inline_code, MarkdownSpan(st, s, i, e3, FALSE))
    ELSE ScanMarkdown(s, i + 1, in_fence, in_inline_code, pushed)

inject_markdown_math_placeholders(md) ==
    ScanMarkdown(md, 0, FALSE, FALSE, [out |-> <<>>, jobs |-> <<>>])

\* what a text is made of here: the delimiters, a blank, a backtick, a letter
ScanPieces ==
    {<<"$">>, <<"$", "$">>, <<"\\", "[">>, <<"\\", "]">>, <<"\\", "(">>, <<"\\", ")">>,
     <<" ">>, <<"U+0060">>, <<"x">>}

InitScans ==
    /\ pc = "text"
    /\ text \in {Concat(ps) : ps \in Strings(ScanPieces, MaxScanPieces)}
    /\ dom = <<>>
    /\ html = <<>>
    /\ jobs = <<>>
    /\ spans = <<>>
    /\ out_mathml = <<>>
    /\ joined = <<>>
    /\ ret = NoRet
    /\ DocxIdle

\* inject_markdown_math_placeholders(md), md being `text`
ScanMarkdownText ==
    /\ pc = "text"
    /\ LET st == inject_markdown_math_placeholders(text) IN
        /\ html' = st.out
        /\ jobs' = st.jobs
    /\ pc' = "md_scanned"
    /\ UNCHANGED <<dom, text, spans, out_mathml, joined, ret, docx_vars>>

NextScans ==
    \/ ScanTextNode
    \/ ScanMarkdownText

SpecScans == InitScans /\ [][NextScans]_vars

\* the text is letters, one delimiter pair that holds blanks only or
\* nothing, and letters
RECURSIVE AllOf(_, _)
AllOf(s, c) == s = <<>> \/ (Head(s) = c /\ AllOf(Tail(s), c))

IsBlankPair(s) ==
    \E a \in 0..Len(s) : \E b \in a..Len(s) :
        /\ AllOf(Slice(s, 0, a), "x")
        /\ AllOf(Slice(s, b, Len(s)), "x")
        /\ \E pair \in {<<<<"$", "$">>, <<"$", "$">>>>, <<<<"\\", "[">>, <<"\\", "]">>>>,
                        <<<<"\\", "(">>, <<"\\", ")">>>>, <<<<"$">>, <<"$">>>>} :
            /\ b - a >= Len(pair[1]) + Len(pair[2])
            /\ StartsWithAt(s, a, pair[1])
            /\ StartsWithAt(s, b - Len(pair[2]), pair[2])
            /\ AllOf(Slice(s, a + Len(pair[1]), b - Len(pair[2])), " ")

\* C22: a delimiter pair whose captured span is empty or blank creates no
\* job and is emitted back as literal text, for each of the four kinds of
\* delimiter, in the HTML text pass and in the Markdown text scan.
C22_BlankSpanIsLiteralText ==
    (pc \in {"scanned", "md_scanned"} /\ IsBlankPair(text)) =>
        /\ jobs = <<>>
        /\ html = <<TextTok(text)>>

\* the same for the HTML text pass alone
BlankSpanIsLiteralInHtmlTextPass ==
    (pc = "scanned" /\ IsBlankPair(text)) =>
        /\ jobs = <<>>
        /\ html = <<TextTok(text)>>

----------------------------------------------------------------------------
(* The attribute-driven pass on its own. *)

InitDataMath ==
    /\ pc = "data_math"
    /\ dom \in Documents("datamath", MaxDataMathNodes)
    /\ text = <<>>
    /\ html = <<>>
    /\ jobs = <<>>
    /\ spans = <<>>
    /\ out_mathml = <<>>
    /\ joined = <<>>
    /\ ret = NoRet
    /\ DocxIdle

SpecDataMath == InitDataMath /\ [][ExtractDataMath]_vars

\* the data-math elements to extract, in document order: those that are no
\* math element and lie in no math element, in no dropped content and in no
\* element that is extracted itself
RECURSIVE ToExtract(_, _)
ToExtract(nodes, in_math) ==
    IF nodes = <<>> THEN <<>>
    ELSE LET n == Head(nodes)
             own == CASE n.k # "elem" -> <<>>
                      [] n.tag \in ContentOnly -> <<>>
                      [] n.tag = "math" \/ in_math -> ToExtract(n.kids, TRUE)
                      [] AttrGet(n.attrs, "data-math") # <<>> -> <<n>>
                      [] OTHER -> ToExtract(n.kids, FALSE)
         IN  own \o ToExtract(Tail(nodes), in_math)

\* the marker comments of a string, in order
MarkersOf(h) == SelectSeq(h, LAMBDA tok : tok.t = "comment")

\* C23: the attribute-driven pass makes no job and no placeholder for a
\* data-math element that is a math element, lies inside one, or lies inside
\* dropped content; for every other data-math element it makes exactly one
\* job and one placeholder and drops the element's subtree, so that nothing
\* inside an extracted element gives a job or reaches the output.
C23_OneJobPerExtractedElement ==
    pc = "sanitize_html" =>
        LET expected == ToExtract(dom, FALSE) IN
        /\ Len(jobs) = Len(expected)
        /\ \A n \in 1..Len(jobs) :
            /\ jobs[n].id = n - 1
            /\ jobs[n].latex = AttrGet(expected[n].attrs, "data-math")[1]
        /\ MarkersOf(html) = [n \in 1..Len(jobs) |-> Marker(n - 1)]
        /\ \A n \in 1..Len(html) :
            /\ html[n].t = "text" => \A q \in 1..Len(html[n].text) : html[n].text[q] # "u"
            /\ html[n].t \in {"open", "void"} => html[n].tag # "svg"
            /\ (html[n].t \in {"open", "void"} /\ AttrGet(html[n].attrs, "data-math") # <<>>)
                    => AttrGet(html[n].attrs, "data-math")[1] = <<"c">>

\* <div data-math="a"><span data-math="c"></span></div><svg><span
\* data-math="c"></span></svg>: one job, of the div
C23_Witness ==
    /\ pc = "sanitize_html"
    /\ dom = <<Elem("div", <<Attr("data-math", <<"a">>)>>,
                    <<Elem("span", <<Attr("data-math", <<"c">>)>>, <<>>)>>),
               Elem("svg", <<>>, <<Elem("span", <<Attr("data-math", <<"c">>)>>, <<>>)>>)>>
    /\ jobs = <<TexJob(0, <<"a">>, TRUE)>>
    /\ html = placeholder_for(0, TRUE)

----------------------------------------------------------------------------
(* Claims about the PreparedOffice. *)

\* C25: for every job of the PreparedOffice its html holds a placeholder
\* marker with the job's id: no job of the attribute-driven pass loses its
\* marker in the sanitization, the text scan or the transcoding.
C25_EveryJobKeepsItsMarker ==
    pc = "prepared" =>
        \A n \in 1..Len(jobs) : \E q \in 1..Len(html) : html[q] = Marker(jobs[n].id)

----------------------------------------------------------------------------
(* decode_entities and normalize_latex on the span of a delimiter pair:    *)
(* normalize_latex(&decode_entities(inner.trim())), inner being `text`.    *)

\* the characters of the spans: a numeric reference and a glyph that
\* normalize_latex replaces
EntityChars == {"&", "#", "3", "9", ";", "U+03D5"}

InitEntities ==
    /\ pc = "text"
    /\ text \in Strings(EntityChars, MaxEntityLen)
    /\ dom = <<>>
    /\ html = <<>>
    /\ jobs = <<>>
    /\ spans = <<>>
    /\ out_mathml = <<>>
    /\ joined = <<>>
    /\ ret = NoRet
    /\ DocxIdle

\* pipeline.rs:213: decode_entities(inner.trim())
DecodeEntities ==
    /\ pc = "text"
    /\ ret' = [ok |-> TRUE, html |-> decode_entities(Trim(text))]
    /\ pc' = "decoded"
    /\ UNCHANGED <<dom, text, html, jobs, spans, out_mathml, joined, docx_vars>>

\* pipeline.rs:213-220: normalize_latex of the decoded span, and the job
NormalizeDecoded ==
    /\ pc = "decoded"
    /\ LET latex == normalize_latex(ret.html) IN
        jobs' = IF Trim(latex) # <<>> THEN <<TexJob(0, latex, FALSE)>> ELSE <<>>
    /\ pc' = "normalized"
    /\ UNCHANGED <<dom, text, html, spans, out_mathml, joined, ret, docx_vars>>

NextEntities ==
    \/ DecodeEntities
    \/ NormalizeDecoded

SpecEntities == InitEntities /\ [][NextEntities]_vars

\* the string with its recognised character references replaced and every
\* other character kept
RECURSIVE OnlyReferencesDecoded(_)
OnlyReferencesDecoded(s) ==
    IF s = <<>> THEN <<>>
    ELSE LET semi == FindFrom(s, 0, <<";">>) IN
         IF Head(s) = "&" /\ semi # -1 /\ DecodeEntity(Slice(s, 1, semi)) # None
         THEN DecodeEntity(Slice(s, 1, semi)) \o OnlyReferencesDecoded(Slice(s, semi + 1, Len(s)))
         ELSE IF Head(s) = "&" /\ semi # -1
         THEN Slice(s, 0, semi + 1) \o OnlyReferencesDecoded(Slice(s, semi + 1, Len(s)))
         ELSE <<Head(s)>> \o OnlyReferencesDecoded(Tail(s))

\* C28: decode_entities changes character references only: every other
\* character of the input, one outside ASCII too, is in the output
\* unchanged and in order, a string without "&" comes back identical, and
\* the glyphs that normalize_latex replaces are replaced in the LaTeX of
\* the job made from the decoded span.
C28_DecodeChangesOnlyReferences ==
    /\ pc \in {"decoded", "normalized"} =>
        /\ ret.html = OnlyReferencesDecoded(Trim(text))
        /\ (\A n \in 1..Len(text) : text[n] # "&") => ret.html = Trim(text)
    /\ pc = "normalized" =>
        \A n \in 1..Len(jobs) : \A q \in 1..Len(jobs[n].latex) :
            /\ jobs[n].latex[q] # "U+03D5"
            /\ jobs[n].latex[q] \notin {"U+00CF", "U+0095"}

----------------------------------------------------------------------------
(* Two calls of the sanitizer on one input. *)

InitSanitizeTwice ==
    /\ pc = "sanitize"
    /\ dom \in Documents("attrs", MaxAttrNodes)
    /\ text = <<>>
    /\ html = <<>>
    /\ jobs = <<>>
    /\ spans = <<>>
    /\ out_mathml = <<>>
    /\ joined = <<>>
    /\ ret = NoRet
    /\ DocxIdle

\* a second sanitize_for_office(input) on the same input; its result is
\* ret.html, that of the first call is html
SanitizeAgain ==
    /\ pc = "sanitized"
    /\ \E order \in {"fwd", "rev"} : ret' = [ok |-> TRUE, html |-> sanitize_for_office(dom, order)]
    /\ pc' = "sanitized_twice"
    /\ UNCHANGED <<dom, text, html, jobs, spans, out_mathml, joined, docx_vars>>

NextSanitizeTwice ==
    \/ SanitizeForOffice
    \/ SanitizeAgain

SpecSanitizeTwice == InitSanitizeTwice /\ [][NextSanitizeTwice]_vars

\* C29: sanitize_for_office is deterministic: two calls with the same input
\* return the same HTML, the order of the attributes written on the
\* elements inside a math subtree included.
C29_SanitizeIsDeterministic ==
    pc = "sanitized_twice" => ret.html = html

====
